---- MODULE Spec2Model ----
(***************************************************************************)
(* Model of fr::codegen: the boost::spirit::x3 ParserDriver of parser.h,   *)
(* and the NamespaceDriver / EnumDriver / ClassDriver of drivers.h that    *)
(* accumulate its signals into the records of data.h.                      *)
(*                                                                         *)
(* The input is read one lexeme at a time.  A lexeme is a keyword, an      *)
(* identifier, a punctuation literal or a whole annotation, together with  *)
(* a flag `gap` saying whether skipped text (blanks, newlines, comments)   *)
(* stands between it and the lexeme before it.  The grammar is a PEG whose *)
(* semantic actions fire as soon as their sub-parser matches and are not   *)
(* undone when the enclosing alternative fails later; `pc` is the position *)
(* inside the grammar of ParserDriver::parse.                              *)
(*                                                                         *)
(* LblSpec is the line-by-line pipeline of LblFilter.h, LblMiniParser.h    *)
(* and LblEmitFunctions.h: `lbl` holds its objects, the lines still to be  *)
(* read and the log of the calls one line causes.  GenSpec is              *)
(* generateSource of GenerateEnumFunctions.cpp: `gen` holds the catalog of *)
(* enums, the position of its loops and the functions written so far.      *)
(*                                                                         *)
(* NsSpec feeds two EnumDrivers and ClassDrivers the events of the two     *)
(* spellings of a nested namespace (`cmp`).  RuleSpec applies single rules *)
(* of parser.h to a text by the character (`chr`).  SigSpec follows the    *)
(* connections of the signals through regParser, subscribeTo and           *)
(* unsubscribe (`sig`).  BodySpec reads the body of one class with         *)
(* qualifiers, constructors, destructors and using declarations (`mem`).   *)
(***************************************************************************)
EXTENDS Integers, Sequences, FiniteSets, TLC

\* -------------------------------------------------------------- bounds
\* lexemes read, over all calls of parse
MaxTokens == 8
\* the same, for the inputs made of ScopeTokens alone
MaxScopeTokens == 12
\* the same, for the inputs made of EnumTokens alone
MaxEnumTokens == 10
\* the same, for the inputs made of BodyTokens alone
MaxBodyTokens == 13
\* the same, for the inputs made of TemplateTokens alone
MaxTemplateTokens == 12
\* the same, for the inputs made of ParentTokens alone
MaxParentTokens == 9
\* the same, for the inputs made of AccessTokens alone
MaxAccessTokens == 11
\* the same, for the inputs made of LifecycleTokens alone
MaxLifecycleTokens == 7
\* calls of unsubscribe and clear and ends of lifetimes in one behaviour
MaxLifecycleOps == 1
\* calls of parse on the same ParserDriver and drivers
MaxParses == 2
\* lexemes read, over all calls of parse, for the inputs made of
\* RestartTokens alone
MaxRestartTokens == 9

\* -------------------------------------------------------------- lexemes
Ids == {"a", "b"}
Keywords == {"namespace", "enum", "class", "struct"}
Punct == {"{", "}", ";", "::", ",", "()", "="}
\* the text of an enumerator's value, read by +x3::alnum
Values == {"3"}
Anns == {"[[cereal]]", "[[get]]", "[[set]]", "[[cereal,get,set]]"}
Tokens == Ids \cup Keywords \cup Punct \cup Anns \cup Values
\* templateKeyword; a template parameter list, read by templateGuts; a
\* string literal
TemplateWords == {"template", "<T>", "\"s\""}
\* publicKeyword, protectedKeyword, privateKeyword
AccessKeywords == {"public", "protected", "private"}

\* The inputs come in families.  "any": one call of parse on any lexemes.
\* "scopes": one call of parse on the lexemes of namespaces, enums and bare
\* scopes, read further.  "enums": one call of parse on the lexemes of
\* enums, read further.  "bodies": one call of parse on the lexemes of a
\* class with members and methods, read further.  "reuse": several calls of
\* parse, on the same ParserDriver and drivers, on the lexemes of class
\* declarations.  "templates": one call of parse on the lexemes of a template
\* class and of what stands in it and after it, read further.  "parents":
\* one call of parse on the lexemes of a class with an inheritance clause.
\* "access": one call of parse on the lexemes of a class or struct with
\* access modifiers, members and methods.  "lifecycle": one call of parse,
\* before which drivers may be unsubscribed, cleared or destroyed.
\* "restart": several calls of parse, on the same ParserDriver and drivers,
\* on the lexemes of classes with an inheritance clause, read further.
ScopeTokens == {"namespace", "enum", "{", "}", ";", "a"}
EnumTokens == {"enum", "{", "}", ";", ",", "=", "3", "a", "b"}
BodyTokens == {"class", "{", "}", ";", "()", "a", "b"}
ReuseTokens == {"class", "struct", "[[cereal]]", "{", "}", ";", "a", "b"}
TemplateTokens == TemplateWords \cup {"class", "enum", "{", "}", ";", "a"}
ParentTokens == AccessKeywords \cup {"class", ":", ",", "{", "}", ";", "a", "b"}
AccessTokens ==
  AccessKeywords \cup {"class", "struct", ":", "{", "}", ";", "()", "a"}
LifecycleTokens == {"namespace", "enum", "class", "{", "}", ";", "a"}
RestartTokens == {"class", ":", "{", "}", ";", "a", "b"}
Families == {"any", "scopes", "enums", "bodies", "reuse", "templates",
             "parents", "access", "lifecycle", "restart"}
\* every lexeme of every family
Lexemes == Tokens \cup TemplateTokens \cup ParentTokens \cup AccessTokens
FamilyTokens(f) ==
  CASE f = "any" -> Tokens
    [] f = "scopes" -> ScopeTokens
    [] f = "enums" -> EnumTokens
    [] f = "bodies" -> BodyTokens
    [] f = "reuse" -> ReuseTokens
    [] f = "templates" -> TemplateTokens
    [] f = "parents" -> ParentTokens
    [] f = "access" -> AccessTokens
    [] f = "lifecycle" -> LifecycleTokens
    [] f = "restart" -> RestartTokens
FamilyBudget(f) ==
  CASE f = "scopes" -> MaxScopeTokens
    [] f = "enums" -> MaxEnumTokens
    [] f = "bodies" -> MaxBodyTokens
    [] f = "templates" -> MaxTemplateTokens
    [] f = "parents" -> MaxParentTokens
    [] f = "access" -> MaxAccessTokens
    [] f = "lifecycle" -> MaxLifecycleTokens
    [] f = "restart" -> MaxRestartTokens
    [] OTHER -> MaxTokens
FamilyParses(f) == IF f \in {"reuse", "restart"} THEN MaxParses ELSE 1

\* identifier_def: alpha or '_' followed by alnum or '_'.  The inputs take
\* their names from Ids (see InputOk)
IsWord(tok) == tok \in Ids

\* enhancedIdentifier_def: any word matches it, the keywords included
IsEnhancedIdentifier(tok) ==
  tok \in Ids \cup Keywords \cup AccessKeywords \cup {"template"}

\* x3::alnum, over the whole lexeme
IsAlnum(tok) == tok \in Ids \cup Values

\* the inner text of an annotation, as the characters annotation_def collects
AnnText(tok) ==
  CASE tok = "[[cereal]]" -> <<"c","e","r","e","a","l">>
    [] tok = "[[get]]" -> <<"g","e","t">>
    [] tok = "[[set]]" -> <<"s","e","t">>
    [] tok = "[[cereal,get,set]]" ->
         <<"c","e","r","e","a","l",",","g","e","t",",","s","e","t">>

cerealText == <<"c","e","r","e","a","l">>
getText == <<"g","e","t">>
setText == <<"s","e","t">>

\* std::string::npos, the value find returns when there is no match
Npos == -1

MatchAt(text, pat, i) ==
  /\ i + Len(pat) <= Len(text)
  /\ \A k \in 1..Len(pat) : text[i + k] = pat[k]

\* std::string::find: the 0-based position of the first match, or npos
Find(text, pat) ==
  LET hits == {i \in 0..Len(text) : MatchAt(text, pat, i)}
  IN IF hits = {} THEN Npos ELSE CHOOSE i \in hits : \A j \in hits : i <= j

\* a size_t used as a condition is true iff it is not zero
Truthy(n) == n # 0

\* -------------------------------------------------------------- data.h
NewEnumData == [namespaces |-> <<>>, name |-> "", isClassEnum |-> FALSE,
                identifiers |-> <<>>]

EnumDataClear(e) == NewEnumData

NewClassData == [namespaces |-> <<>>, name |-> "", parents |-> <<>>,
                 methods |-> <<>>, members |-> <<>>, isStruct |-> FALSE,
                 serializable |-> FALSE]

ClassDataClear(c) == NewClassData

RECURSIVE JoinNs(_)
JoinNs(ns) == IF ns = <<>> THEN <<>> ELSE <<Head(ns), "::">> \o JoinNs(Tail(ns))

\* ClassData::fullClassName: every namespace followed by "::", then the name
fullClassName(c) == JoinNs(c.namespaces) \o <<c.name>>

\* -------------------------------------------------------------- NamespaceDriver
\* subscribed: the connections regParser stored in subscriptions are
\* connected.  destroyed: the object's lifetime has ended.
NewNamespaceDriver ==
  [scopeDepth |-> 0, namespaceStack |-> <<>>, subscribed |-> TRUE]

\* a signal calls a subscriber of driver d only while its connection is
\* connected
Deliver(d, result) == IF d.subscribed THEN result ELSE d

NamespaceDriver_unsubscribe(nd) == [nd EXCEPT !.subscribed = FALSE]

NamespaceDriver_clear(nd) ==
  [NamespaceDriver_unsubscribe(nd) EXCEPT !.scopeDepth = 0,
                                          !.namespaceStack = <<>>]

RECURSIVE PopWhile(_, _)
PopWhile(stack, depth) ==
  IF Len(stack) > 0 /\ stack[Len(stack)].scopeDepth >= depth
  THEN PopWhile(SubSeq(stack, 1, Len(stack) - 1), depth)
  ELSE stack

cleanUpNamespaces(nd) ==
  [nd EXCEPT !.namespaceStack = PopWhile(nd.namespaceStack, nd.scopeDepth)]

\* incScope subscriber of NamespaceDriver::regParser
nsIncScope(nd) == [nd EXCEPT !.scopeDepth = @ + 1]

\* decScope subscriber of NamespaceDriver::regParser
nsDecScope(nd) == cleanUpNamespaces([nd EXCEPT !.scopeDepth = @ - 1])

\* namespacePush subscriber of NamespaceDriver::regParser
nsNamespacePush(nd, name, depth) ==
  [nd EXCEPT !.namespaceStack =
     Append(@, [name |-> name, scopeDepth |-> depth + 1])]

StackNames(stack) == [i \in 1..Len(stack) |-> stack[i].name]

\* -------------------------------------------------------------- EnumDriver
NewEnumDriver ==
  [namespaces |-> NewNamespaceDriver, currentEnum |-> NewEnumData,
   subscribed |-> TRUE, destroyed |-> FALSE]

EnumDriver_unsubscribe(ed) == [ed EXCEPT !.subscribed = FALSE]

EnumDriver_clear(ed) ==
  [EnumDriver_unsubscribe(ed) EXCEPT !.namespaces = NamespaceDriver_clear(@),
                                     !.currentEnum = EnumDataClear(@)]

EnumDriver_copyNamespaces(ed) ==
  [ed EXCEPT !.currentEnum.namespaces =
     @ \o StackNames(ed.namespaces.namespaceStack)]

handleStandardEnum(ed, name) ==
  [EnumDriver_copyNamespaces(ed) EXCEPT !.currentEnum.name = name]

handleEnumClass(ed, name) ==
  [EnumDriver_copyNamespaces(ed) EXCEPT !.currentEnum.name = name,
                                        !.currentEnum.isClassEnum = TRUE]

handleEnumIdentifier_front(ed, identifier) ==
  [ed EXCEPT !.currentEnum.identifiers = <<identifier>> \o @]

EnumDriver_handleEnumIdentifier(ed, identifier) ==
  [ed EXCEPT !.currentEnum.identifiers = Append(@, identifier)]

namespaceKey_bare(e) == <<e.name>>

\* the key built by the decScope subscriber of EnumDriver::regParser
namespaceKey(e) == JoinNs(e.namespaces) \o <<e.name>>

\* what the decScope subscriber of EnumDriver::regParser sends on
\* enumAvailable: nothing while no enum is being collected
enumAvailable(ed) ==
  IF ed.currentEnum.name # ""
  THEN <<[key |-> namespaceKey(ed.currentEnum), data |-> ed.currentEnum]>>
  ELSE <<>>

enumScopePop(ed) ==
  IF ed.currentEnum.name # ""
  THEN [ed EXCEPT !.currentEnum = EnumDataClear(@)]
  ELSE ed

\* -------------------------------------------------------------- ClassDriver
NewClassDriver ==
  [namespaces |-> NewNamespaceDriver, currentClass |-> NewClassData,
   isPublic |-> FALSE, isPrivate |-> TRUE, isProtected |-> FALSE,
   inClass |-> FALSE, generateGetter |-> FALSE, generateSetter |-> FALSE,
   serializable |-> FALSE,
   subscribed |-> TRUE, classPopSub |-> TRUE, destroyed |-> FALSE]

nowPrivate(cd) ==
  [cd EXCEPT !.isPrivate = TRUE, !.isPublic = FALSE, !.isProtected = FALSE]

nowPublic(cd) ==
  [cd EXCEPT !.isPrivate = FALSE, !.isPublic = TRUE, !.isProtected = FALSE]

nowProtected_also(cd) ==
  [cd EXCEPT !.isPrivate = FALSE, !.isProtected = TRUE]

nowProtected(cd) ==
  [cd EXCEPT !.isPrivate = FALSE, !.isPublic = FALSE, !.isProtected = TRUE]

ClassDriver_copyNamespaces(cd) ==
  [cd EXCEPT !.currentClass.namespaces =
     @ \o StackNames(cd.namespaces.namespaceStack)]

handleClass(cd, name) ==
  [nowPrivate([ClassDriver_copyNamespaces(cd) EXCEPT !.currentClass.name = name])
     EXCEPT !.currentClass.isStruct = FALSE, !.inClass = TRUE]

handleStruct(cd, name) ==
  [nowPublic([ClassDriver_copyNamespaces(cd) EXCEPT !.currentClass.name = name])
     EXCEPT !.currentClass.isStruct = TRUE, !.inClass = TRUE]

\* ClassDriver::unsubscribe: the connections of subscriptions, among which
\* regParser did not put classPopSub
ClassDriver_unsubscribe(cd) == [cd EXCEPT !.subscribed = FALSE]

ClassDriver_clear(cd) ==
  [nowPrivate([ClassDriver_unsubscribe(cd) EXCEPT
                 !.namespaces = NamespaceDriver_clear(@),
                 !.currentClass = ClassDataClear(@)])
     EXCEPT !.inClass = FALSE, !.generateGetter = FALSE,
            !.generateSetter = FALSE, !.serializable = FALSE]

\* the subscribers of privateClassParent, protectedClassParent and
\* publicClassParent of ClassDriver::regParser, which all do the same
classParentSub(cd, name) ==
  [cd EXCEPT !.currentClass.parents = Append(@, name)]

\* ClassDriver::handlePublic, handlePrivate and handleProtected, as the
\* subscribers of publicInClass, privateInClass and protectedInClass call
\* them
handleAccess(cd, keyword) ==
  CASE keyword = "public" -> nowPublic(cd)
    [] keyword = "private" -> nowPrivate(cd)
    [] keyword = "protected" -> nowProtected(cd)

\* what handleClassPop sends on classAvailable
classAvailable(cd) ==
  <<[key |-> fullClassName(cd.currentClass), data |-> cd.currentClass]>>

ClassDriver_handleClassPop(cd) ==
  [cd EXCEPT !.currentClass = ClassDataClear(@), !.inClass = FALSE]

\* the MemberData handleMemberFound builds
NewMemberData(cd, inClassConst, inClassStatic, type, name) ==
  [type |-> type, name |-> name, isPublic |-> cd.isPublic,
   isProtected |-> cd.isProtected, isConst |-> inClassConst,
   isStatic |-> inClassStatic, serializable |-> cd.serializable,
   generateGetter |-> cd.generateGetter, generateSetter |-> cd.generateSetter]

handleMemberFound_front(cd, inClassConst, inClassStatic, type, name) ==
  [cd EXCEPT !.currentClass.members =
               <<NewMemberData(cd, inClassConst, inClassStatic, type, name)>> \o @,
             !.serializable = FALSE,
             !.generateGetter = FALSE,
             !.generateSetter = FALSE]

ClassDriver_handleMemberFound(cd, inClassConst, inClassStatic, type, name) ==
  [cd EXCEPT !.currentClass.members =
               Append(@, NewMemberData(cd, inClassConst, inClassStatic, type, name)),
             !.serializable = FALSE,
             !.generateGetter = FALSE,
             !.generateSetter = FALSE]

ClassDriver_handleMethodFound(cd, inClassConst, inClassStatic, inClassVirtual, type, name) ==
  [cd EXCEPT !.currentClass.methods =
     Append(@, [returnType |-> type, name |-> name, isPublic |-> cd.isPublic,
                isProtected |-> cd.isProtected, isConst |-> inClassConst,
                isStatic |-> inClassStatic, isVirtual |-> inClassVirtual])]

\* the three tests of ClassDriver::handleAnnotation
AnnCereal(text) == Find(text, cerealText) # Npos

AnnGet(text) == Truthy(Find(text, getText))

AnnSet(text) == Truthy(Find(text, setText))

ClassDriver_handleAnnotation(cd, text) ==
  LET c1 == IF AnnCereal(text)
            THEN IF ~cd.inClass
                 THEN [cd EXCEPT !.currentClass.serializable = TRUE]
                 ELSE [cd EXCEPT !.serializable = TRUE]
            ELSE cd
      c2 == IF AnnGet(text) /\ c1.inClass
            THEN [c1 EXCEPT !.generateGetter = TRUE] ELSE c1
  IN IF AnnSet(text) /\ c2.inClass
     THEN [c2 EXCEPT !.generateSetter = TRUE] ELSE c2

\* -------------------------------------------------------------- state
VARIABLES
  pc,              \* position in the grammar of ParserDriver::parse
  family,          \* which inputs this behaviour reads (see Families)
  held,            \* the word read at the start of a class-body entry
  ntok,            \* lexemes read so far
  nparse,          \* calls of parse started so far
  ret,             \* what the last call of parse returned
  leftover,        \* whether the last call left input unconsumed
  parser,          \* the data members of ParserDriver
  scopeDepth,      \* local of parse
  currentEnumName, \* local of parse
  enums,           \* the EnumDriver registered with the parser
  classes,         \* the ClassDriver registered with the parser
  enumOut,         \* the enumAvailable signal sent by the last step, if any
  classOut,        \* the classAvailable signal sent by the last step, if any
  tpl,             \* where the input read so far stands in a template class
  inh,             \* the inheritance clause of the class being read
  memberOut,       \* the MemberData appended by the last step, if any
  g,               \* what the input declared (history of the lexemes read)
  lbl,             \* the line by line pipeline of LblFilter.h
  gen,             \* the run of generateSource of GenerateEnumFunctions.cpp
  cmp,             \* two EnumDrivers fed the two spellings of a namespace
  chr,             \* one rule of parser.h applied to a text, by the character
  sig,             \* the connections of the signals of one ParserDriver
  mem              \* the body of one class read by classGrammar

\* the state of the parser and of the drivers registered with it
parserVars == <<pc, family, held, ntok, nparse, ret, leftover, parser,
                scopeDepth, currentEnumName, enums, classes, enumOut, classOut,
                memberOut, g, tpl, inh>>

\* the state of the specifications that drive single rules and drivers
benchVars == <<cmp, chr, sig, mem>>

vars == <<parserVars, lbl, gen, benchVars>>

\* a substring test that does not go through std::string::find
Contains(text, pat) == \E i \in 0..Len(text) : MatchAt(text, pat, i)

RECURSIVE Flatten(_)
Flatten(ss) == IF ss = <<>> THEN <<>> ELSE Head(ss) \o Flatten(Tail(ss))

\* the namespaces whose braces are open at this point of the input
LexNs == Flatten(g.lex)

NewHistory ==
  [lex |-> <<>>, pendNs |-> <<>>, braceDepth |-> 0, braceNeg |-> FALSE,
   eDeclNs |-> <<>>, cDeclNs |-> <<>>, kwStruct |-> FALSE, cDeclStruct |-> FALSE,
   preCereal |-> FALSE, cDeclCereal |-> FALSE, openEnum |-> 0, openClass |-> 0,
   annCereal |-> FALSE, annGet |-> FALSE, annSet |-> FALSE,
   eIdents |-> <<>>, eValue |-> FALSE, eName |-> "", eArgs |-> <<>>,
   entry |-> <<"", "">>, cMembers |-> <<>>, cMethods |-> <<>>, cName |-> "",
   rejected |-> FALSE, parentEvents |-> <<>>,
   access |-> "private", mAccess |-> <<>>, fAccess |-> <<>>,
   offN |-> <<>>, offE |-> <<>>, offC |-> <<>>, ops |-> 0]

\* ParserDriver::resetInClassFlags; the statement `inClassStruct;` has no effect
resetInClassFlags(p) ==
  [p EXCEPT !.inClassConst = FALSE, !.inClassStatic = FALSE,
            !.inClassVirtual = FALSE, !.inClassEnhancedIdentifier = "",
            !.inClassIdentifier = ""]

\* The inheritance clause of the class being read, by the text itself.
\* phase: "start" after the ':' and after a ',', "access" after an access
\* keyword, "name" after the name of a parent, "none" elsewhere.  access:
\* the access of the parent being read, private when no keyword gives it.
\* decl: the access and the name of every parent read so far.
InheritanceText(tok) ==
  CASE pc = "cls_kw" -> [phase |-> "none", access |-> "private", decl |-> <<>>]
    [] pc = "cls_id" /\ tok = ":" -> [inh EXCEPT !.phase = "start"]
    [] inh.phase = "start" /\ tok \in AccessKeywords ->
         [inh EXCEPT !.phase = "access", !.access = tok]
    [] inh.phase \in {"start", "access"} /\ tok \in Ids ->
         [inh EXCEPT !.phase = "name", !.access = "private",
                     !.decl = Append(@, <<inh.access, tok>>)]
    [] inh.phase = "name" /\ tok = "," -> [inh EXCEPT !.phase = "start"]
    [] inh.phase = "name" /\ tok = "{" -> [inh EXCEPT !.phase = "none"]
    [] OTHER -> inh

NoParents == [phase |-> "none", access |-> "private", decl |-> <<>>]

NoTemplate == [phase |-> "none", open |-> 0, snap |-> <<>>]

\* no reader, filter or writer has been constructed
NoPipeline == [nodes |-> <<>>]

\* generateSource has not been called
NoGenerator == [phase |-> "none"]

\* no two spellings of a namespace are being compared
NoComparison == [phase |-> "none"]

\* no rule is being applied to a text
NoRule == [phase |-> "none"]

\* no ParserDriver whose connections are looked at
NoSignals == [phase |-> "none"]

\* no class body is being read
NoBody == [pc |-> "none"]

NoBench ==
  /\ cmp = NoComparison
  /\ chr = NoRule
  /\ sig = NoSignals
  /\ mem = NoBody

\* ParserDriver has no constructor: inClassStruct holds whatever the storage
\* held.  The other flags are overwritten by parse before they are read.
Init ==
  /\ pc = "idle"
  /\ family \in Families
  /\ held = ""
  /\ ntok = 0
  /\ nparse = 0
  /\ ret = "none"
  /\ leftover = FALSE
  /\ \E b \in BOOLEAN :
       parser = [inClassConst |-> FALSE, inClassStatic |-> FALSE,
                 inClassVirtual |-> FALSE, inClassStruct |-> b,
                 inClassEnhancedIdentifier |-> "", inClassIdentifier |-> ""]
  /\ scopeDepth = 0
  /\ currentEnumName = ""
  /\ enums = NewEnumDriver
  /\ classes = NewClassDriver
  /\ enumOut = <<>>
  /\ classOut = <<>>
  /\ memberOut = <<>>
  /\ g = NewHistory
  /\ tpl = NoTemplate
  /\ inh = NoParents
  /\ lbl = NoPipeline
  /\ gen = NoGenerator
  /\ NoBench

\* -------------------------------------------------------------- reading
\* positions right after an identifier lexeme: a word that follows without a
\* gap would be part of that identifier, so such a lexeme sequence is not an
\* input of its own
AfterIdent == {"ns_id", "enum_id", "enum_ident", "enum_val", "cls_id",
               "body_w", "body_ww", "tpl_id"}

LexOk(tok, gap) ==
  /\ (pc \in AfterIdent /\ IsAlnum(tok)) => gap
  /\ (pc = "body_w" /\ tok = "::") => gap

\* positions at which the grammar reads an identifier
IdentPositions == {"ns_kw", "ns_sep", "enum_kw", "enumclass_kw", "cls_kw",
                   "tpl_cls",
                   "enum_body", "enum_ident", "enum_eq", "enum_val", "body",
                   "body_w", "body_ww", "method_tail", "ctor_tail"}

\* the positions at which the repeated part of classGrammar starts an entry
BodyStart == {"body", "body_ww", "method_tail", "ctor_tail"}

\* the words that are no names
Reserved == Keywords \cup {"template"} \cup AccessKeywords

\* the inputs considered: no keyword is used as a name, be it of a type or
\* of a constructor; a parameter list stands behind a name; an inheritance
\* clause is a list of names, each with at most one access keyword in front
\* of it, with commas between them; in the family "bodies" the classes and
\* the types are all called a
InputOk(tok, gap) ==
  /\ tok \in FamilyTokens(family)
  /\ LexOk(tok, gap)
  /\ (family = "bodies" /\ pc \in BodyStart \cup {"cls_kw"}) => tok # "b"
  /\ (tok \in Reserved /\ pc \in IdentPositions) =>
        \/ pc = "enum_kw" /\ tok = "class"
        \/ pc \in BodyStart /\ tok \in AccessKeywords
  /\ pc = "body_acc" => ~IsWord(tok)
  /\ tok = "()" => pc \in {"body_w", "body_ww"}
  /\ inh.phase = "start" => tok \in AccessKeywords \cup Ids
  /\ inh.phase = "access" => tok \in Ids
  /\ inh.phase = "name" => tok \in {",", "{"}

Running == pc \notin {"idle", "returned", "crashed"}

\* Where the input stands in the text of a template class, by the braces of
\* the text itself: "kw", "guts", "cls", "id" in its head, "body" inside its
\* braces, "closing" after the brace that closes it, "done" after the ';'
\* right behind that brace, "past" later and "none" before.  open: the
\* braces open in its body.  snap: the drivers and the scope depth when its
\* first lexeme was read.
TemplateText(tok, gap) ==
  CASE tpl.phase = "none" /\ pc = "top" /\ tok = "template" ->
         [phase |-> "kw", open |-> 0, snap |-> <<enums, classes, scopeDepth>>]
    [] tpl.phase = "kw" ->
         [tpl EXCEPT !.phase = IF tok = "<T>" THEN "guts" ELSE "past"]
    [] tpl.phase = "guts" ->
         [tpl EXCEPT !.phase = IF tok \in {"class", "struct"} THEN "cls" ELSE "past"]
    [] tpl.phase = "cls" ->
         [tpl EXCEPT !.phase = IF IsWord(tok) THEN "id" ELSE "past"]
    [] tpl.phase = "id" ->
         IF tok = "{" THEN [tpl EXCEPT !.phase = "body", !.open = 1]
         ELSE [tpl EXCEPT !.phase = "past"]
    [] tpl.phase \in {"body", "closing"} /\ tok = "{" ->
         [tpl EXCEPT !.phase = IF tpl.open = 0 THEN "past" ELSE "body",
                     !.open = @ + 1]
    [] tpl.phase = "body" /\ tok = "}" ->
         [tpl EXCEPT !.phase = IF tpl.open = 1 THEN "closing" ELSE "body",
                     !.open = @ - 1]
    [] tpl.phase = "closing" ->
         [tpl EXCEPT !.phase = IF tok = ";" /\ ~gap THEN "done" ELSE "past"]
    [] tpl.phase = "done" -> [tpl EXCEPT !.phase = "past"]
    [] OTHER -> tpl

Read(tok, gap) ==
  /\ Running
  /\ ntok < FamilyBudget(family)
  /\ InputOk(tok, gap)
  /\ ntok' = ntok + 1
  /\ tpl' = TemplateText(tok, gap)
  /\ inh' = InheritanceText(tok)
  /\ UNCHANGED family

\* the lexemes the grammar can go on with at position pc
Accepts(tok, gap) ==
  CASE pc = "top" -> tok \in {"{", "}", "namespace", "enum", "class", "struct",
                               "template"} \cup Anns
    [] pc = "tpl_kw" -> tok = "<T>"
    [] pc = "tpl_guts" -> tok \in {"class", "struct"}
    [] pc = "tpl_cls" -> IsWord(tok)
    [] pc = "tpl_id" -> tok = "{"
    [] pc \in {"tpl_body", "tpl_rbrace"} -> TRUE
    [] pc = "ns_kw" -> IsWord(tok)
    [] pc = "ns_sep" -> IsWord(tok)
    [] pc = "ns_id" -> tok \in {"::", "{"}
    [] pc = "enum_kw" -> IsWord(tok) \/ tok = "class"
    [] pc = "enumclass_kw" -> IsWord(tok)
    [] pc = "enum_id" -> tok = "{"
    [] pc = "enum_body" -> IsWord(tok) \/ tok = "}"
    [] pc = "enum_ident" -> IsWord(tok) \/ tok \in {",", "}", "="}
    [] pc = "enum_eq" -> IsAlnum(tok)
    [] pc = "enum_val" -> IsAlnum(tok) \/ tok \in {",", "}"}
    [] pc = "enum_close" -> tok = ";"
    [] pc = "cls_ann" -> tok \in {"class", "struct"} \cup Anns
    [] pc = "cls_kw" -> IsWord(tok)
    [] pc = "cls_id" -> tok \in {"{", ":"}
    [] pc = "par_first" -> tok = "private" \/ IsEnhancedIdentifier(tok)
    [] pc = "par_kw" -> IsEnhancedIdentifier(tok)
    [] pc = "par_more" -> tok \in {"private", "{"} \/ IsEnhancedIdentifier(tok)
    [] pc = "body_w" -> IsWord(tok) \/ tok = "()"
    [] pc = "body_acc" -> tok = ":"
    [] pc = "cls_rbrace" -> tok = ";" /\ ~gap
    [] pc = "body" ->
         IsWord(tok) \/ tok \in {"()", "}"} \cup Anns \cup AccessKeywords
    [] pc \in {"body_ww", "method_tail", "ctor_tail"} ->
         IsWord(tok) \/ tok \in {"()", "}", ";"} \cup Anns \cup AccessKeywords
    [] OTHER -> FALSE

\* -------------------------------------------------------------- signals
\* incScope: the subscribers in the order regParser connected them
PublishIncScope ==
  /\ enums' = [enums EXCEPT !.namespaces = Deliver(@, nsIncScope(@))]
  /\ classes' = [classes EXCEPT !.namespaces = Deliver(@, nsIncScope(@))]

PublishNamespacePush(name, depth) ==
  /\ enums' = [enums EXCEPT !.namespaces =
                  Deliver(@, nsNamespacePush(@, name, depth))]
  /\ classes' = [classes EXCEPT !.namespaces =
                    Deliver(@, nsNamespacePush(@, name, depth))]

\* -------------------------------------------------------------- parse
\* a step in which no driver sends enumAvailable or classAvailable and no
\* MemberData is appended
NoSignal == enumOut' = <<>> /\ classOut' = <<>> /\ memberOut' = <<>>

\* -------------------------------------------------------------- lifecycle
\* the drivers a caller can reach: the EnumDriver, its member namespaces and
\* the ClassDriver
Drivers == {"NamespaceDriver", "EnumDriver", "ClassDriver"}

\* the fields of a driver that its own subscribers write
OwnState(d) ==
  CASE d = "NamespaceDriver" -> enums.namespaces
    [] d = "EnumDriver" -> enums.currentEnum
    [] d = "ClassDriver" -> [classes EXCEPT !.namespaces = NewNamespaceDriver]

\* between regParser and the call of parse
Registered == family = "lifecycle" /\ pc = "idle" /\ g.ops < MaxLifecycleOps

\* unsubscribe() of a driver
unsubscribe(d) ==
  /\ Registered
  /\ \/ /\ d = "NamespaceDriver"
        /\ enums' = [enums EXCEPT !.namespaces = NamespaceDriver_unsubscribe(@)]
        /\ g' = [g EXCEPT !.ops = @ + 1, !.offN =
                   <<NamespaceDriver_unsubscribe(enums.namespaces)>>]
        /\ UNCHANGED classes
     \/ /\ d = "EnumDriver"
        /\ enums' = EnumDriver_unsubscribe(enums)
        /\ g' = [g EXCEPT !.ops = @ + 1, !.offE = <<OwnState(d)>>]
        /\ UNCHANGED classes
     \/ /\ d = "ClassDriver"
        /\ classes' = ClassDriver_unsubscribe(classes)
        /\ g' = [g EXCEPT !.ops = @ + 1,
                          !.offC = <<ClassDriver_unsubscribe(classes)>>]
        /\ UNCHANGED enums
  /\ NoSignal
  /\ UNCHANGED <<pc, family, held, ntok, nparse, ret, leftover, lbl, gen, benchVars, parser,
                 scopeDepth, currentEnumName, tpl, inh>>

\* clear() of a driver
clear(d) ==
  /\ Registered
  /\ \/ /\ d = "NamespaceDriver"
        /\ enums' = [enums EXCEPT !.namespaces = NamespaceDriver_clear(@)]
        /\ g' = [g EXCEPT !.ops = @ + 1,
                          !.offN = <<NamespaceDriver_clear(enums.namespaces)>>]
        /\ UNCHANGED classes
     \/ /\ d = "EnumDriver"
        /\ enums' = EnumDriver_clear(enums)
        /\ g' = [g EXCEPT !.ops = @ + 1,
                          !.offE = <<EnumDriver_clear(enums).currentEnum>>,
                          !.offN = <<NamespaceDriver_clear(enums.namespaces)>>]
        /\ UNCHANGED classes
     \/ /\ d = "ClassDriver"
        /\ classes' = ClassDriver_clear(classes)
        /\ g' = [g EXCEPT !.ops = @ + 1, !.offC = <<ClassDriver_clear(classes)>>]
        /\ UNCHANGED enums
  /\ NoSignal
  /\ UNCHANGED <<pc, family, held, ntok, nparse, ret, leftover, lbl, gen, benchVars, parser,
                 scopeDepth, currentEnumName, tpl, inh>>

\* The lifetime of a driver ends.  EnumDriver, ClassDriver and
\* NamespaceDriver declare no destructor: the connections in subscriptions
\* are destroyed, which does not disconnect them.
Destroy(d) ==
  /\ Registered
  /\ \/ d = "EnumDriver" /\ ~enums.destroyed
        /\ enums' = [enums EXCEPT !.destroyed = TRUE] /\ UNCHANGED classes
     \/ d = "ClassDriver" /\ ~classes.destroyed
        /\ classes' = [classes EXCEPT !.destroyed = TRUE] /\ UNCHANGED enums
  /\ g' = [g EXCEPT !.ops = @ + 1]
  /\ NoSignal
  /\ UNCHANGED <<pc, family, held, ntok, nparse, ret, leftover, lbl, gen, benchVars, parser,
                 scopeDepth, currentEnumName, tpl, inh>>

\* the opening statements of ParserDriver::parse
StartParse ==
  /\ pc \in {"idle", "returned"}
  /\ nparse < FamilyParses(family)
  /\ nparse' = nparse + 1
  /\ pc' = "top"
  /\ scopeDepth' = 0
  /\ parser' = resetInClassFlags(parser)
  /\ currentEnumName' = ""
  /\ g' = [NewHistory EXCEPT !.openEnum = g.openEnum, !.openClass = g.openClass,
                             !.preCereal = g.preCereal, !.offN = g.offN,
                             !.offE = g.offE, !.offC = g.offC,
                             !.ops = g.ops]
  /\ tpl' = NoTemplate
  /\ inh' = NoParents
  /\ NoSignal
  /\ UNCHANGED <<family, held, ntok, ret, leftover, lbl, gen, benchVars, enums, classes>>

\* programGrammar: scopePush, which has no semantic action attached here
ScopePushTop(tok, gap) ==
  /\ pc = "top" /\ tok = "{"
  /\ Read(tok, gap)
  /\ g' = [g EXCEPT !.lex = Append(@, <<>>), !.braceDepth = @ + 1]
  /\ NoSignal
  /\ UNCHANGED <<pc, held, nparse, ret, leftover, lbl, gen, benchVars, parser, scopeDepth,
                 currentEnumName, enums, classes>>

\* programGrammar: scopePop, which has no semantic action attached here
ScopePopTop(tok, gap) ==
  /\ pc = "top" /\ tok = "}"
  /\ Read(tok, gap)
  /\ g' = [g EXCEPT !.lex = IF @ = <<>> THEN @ ELSE SubSeq(@, 1, Len(@) - 1),
                    !.braceDepth = @ - 1,
                    !.braceNeg = @ \/ g.braceDepth = 0]
  /\ NoSignal
  /\ UNCHANGED <<pc, held, nparse, ret, leftover, lbl, gen, benchVars, parser, scopeDepth,
                 currentEnumName, enums, classes>>

\* namespaceGrammar: namespaceKeyword
NamespaceKeyword(tok, gap) ==
  /\ pc = "top" /\ tok = "namespace"
  /\ Read(tok, gap)
  /\ pc' = "ns_kw"
  /\ g' = [g EXCEPT !.pendNs = <<>>]
  /\ NoSignal
  /\ UNCHANGED <<held, nparse, ret, leftover, lbl, gen, benchVars, parser, scopeDepth,
                 currentEnumName, enums, classes>>

\* namespaceGrammar: identifier [handleNamespaceIdentifier]
handleNamespaceIdentifier(tok, gap) ==
  /\ pc \in {"ns_kw", "ns_sep"} /\ IsWord(tok)
  /\ PublishNamespacePush(tok, scopeDepth)
  /\ Read(tok, gap)
  /\ pc' = "ns_id"
  /\ g' = [g EXCEPT !.pendNs = Append(@, tok)]
  /\ NoSignal
  /\ UNCHANGED <<held, nparse, ret, leftover, lbl, gen, benchVars, parser, scopeDepth,
                 currentEnumName>>

\* namespaceGrammar: x3::lit("::")
NamespaceSeparator(tok, gap) ==
  /\ pc = "ns_id" /\ tok = "::"
  /\ Read(tok, gap)
  /\ pc' = "ns_sep"
  /\ NoSignal
  /\ UNCHANGED <<held, nparse, ret, leftover, lbl, gen, benchVars, parser, scopeDepth,
                 currentEnumName, enums, classes, g>>

\* namespaceGrammar: scopePush [handleScopePush]
NamespaceScopePush(tok, gap) ==
  /\ pc = "ns_id" /\ tok = "{"
  /\ PublishIncScope
  /\ Read(tok, gap)
  /\ scopeDepth' = scopeDepth + 1
  /\ pc' = "top"
  /\ g' = [g EXCEPT !.lex = Append(@, g.pendNs), !.pendNs = <<>>,
                    !.braceDepth = @ + 1]
  /\ NoSignal
  /\ UNCHANGED <<held, nparse, ret, leftover, lbl, gen, benchVars, parser, currentEnumName>>

\* enumGrammar and enumClassGrammar: enumKeyword
EnumKeyword(tok, gap) ==
  /\ pc = "top" /\ tok = "enum"
  /\ Read(tok, gap)
  /\ pc' = "enum_kw"
  /\ NoSignal
  /\ UNCHANGED <<held, nparse, ret, leftover, lbl, gen, benchVars, parser, scopeDepth,
                 currentEnumName, enums, classes, g>>

\* enumGrammar fails at !classKeyword; enumClassGrammar: classKeyword
EnumClassKeyword(tok, gap) ==
  /\ pc = "enum_kw" /\ tok = "class"
  /\ Read(tok, gap)
  /\ pc' = "enumclass_kw"
  /\ NoSignal
  /\ UNCHANGED <<held, nparse, ret, leftover, lbl, gen, benchVars, parser, scopeDepth,
                 currentEnumName, enums, classes, g>>

\* enumGrammar: identifier [handleEnumPush]
handleEnumPush(tok, gap) ==
  /\ pc = "enum_kw" /\ IsWord(tok)
  /\ Read(tok, gap)
  /\ enums' = Deliver(enums, handleStandardEnum(enums, tok))
  /\ currentEnumName' = tok
  /\ pc' = "enum_id"
  /\ g' = [g EXCEPT !.eDeclNs = LexNs, !.openEnum = @ + 1, !.eIdents = <<>>,
                    !.eValue = FALSE, !.eName = tok, !.eArgs = <<>>]
  /\ NoSignal
  /\ UNCHANGED <<held, nparse, ret, leftover, lbl, gen, benchVars, parser, scopeDepth, classes>>

\* enumClassGrammar: identifier [handleEnumClassPush]
handleEnumClassPush(tok, gap) ==
  /\ pc = "enumclass_kw" /\ IsWord(tok)
  /\ Read(tok, gap)
  /\ enums' = Deliver(enums, handleEnumClass(enums, tok))
  /\ pc' = "enum_id"
  /\ g' = [g EXCEPT !.eDeclNs = LexNs, !.openEnum = @ + 1, !.eIdents = <<>>,
                    !.eValue = FALSE, !.eName = tok, !.eArgs = <<>>]
  /\ NoSignal
  /\ UNCHANGED <<held, nparse, ret, leftover, lbl, gen, benchVars, parser, scopeDepth,
                 currentEnumName, classes>>

\* enumGrammar and enumClassGrammar: scopePush [handleScopePush]
EnumScopePush(tok, gap) ==
  /\ pc = "enum_id" /\ tok = "{"
  /\ PublishIncScope
  /\ Read(tok, gap)
  /\ scopeDepth' = scopeDepth + 1
  /\ pc' = "enum_body"
  /\ g' = [g EXCEPT !.braceDepth = @ + 1]
  /\ NoSignal
  /\ UNCHANGED <<held, nparse, ret, leftover, lbl, gen, benchVars, parser, currentEnumName>>

\* enumGrammar and enumClassGrammar: identifier [handleEnumIdentifier]
handleEnumIdentifier(tok, gap) ==
  /\ pc \in {"enum_body", "enum_ident"} /\ IsWord(tok)
  /\ Read(tok, gap)
  /\ enums' = Deliver(enums, EnumDriver_handleEnumIdentifier(enums, tok))
  /\ pc' = "enum_ident"
  /\ g' = [g EXCEPT !.eIdents = Append(@, tok),
                    !.eArgs = Append(@, currentEnumName)]
  /\ NoSignal
  /\ UNCHANGED <<held, nparse, ret, leftover, lbl, gen, benchVars, parser, scopeDepth,
                 currentEnumName, classes>>

\* enumGrammar and enumClassGrammar: the x3::lit("=") of -(x3::lit("=") >>
\* +x3::alnum); nothing is kept of it if no alnum follows
EnumAssign(tok, gap) ==
  /\ pc = "enum_ident" /\ tok = "="
  /\ Read(tok, gap)
  /\ pc' = "enum_eq"
  /\ NoSignal
  /\ UNCHANGED <<held, nparse, ret, leftover, lbl, gen, benchVars, parser, scopeDepth,
                 currentEnumName, enums, classes, g>>

\* enumGrammar and enumClassGrammar: +x3::alnum, which goes on over every
\* letter and digit that follows, skipped text or not
EnumValue(tok, gap) ==
  /\ pc \in {"enum_eq", "enum_val"} /\ IsAlnum(tok)
  /\ Read(tok, gap)
  /\ pc' = "enum_val"
  /\ g' = [g EXCEPT !.eValue = TRUE]
  /\ NoSignal
  /\ UNCHANGED <<held, nparse, ret, leftover, lbl, gen, benchVars, parser, scopeDepth,
                 currentEnumName, enums, classes>>

\* enumGrammar and enumClassGrammar: -(x3::lit(","))
EnumComma(tok, gap) ==
  /\ pc \in {"enum_ident", "enum_val"} /\ tok = ","
  /\ Read(tok, gap)
  /\ pc' = "enum_body"
  /\ NoSignal
  /\ UNCHANGED <<held, nparse, ret, leftover, lbl, gen, benchVars, parser, scopeDepth,
                 currentEnumName, enums, classes, g>>

\* enumGrammar and enumClassGrammar: scopePop [handleScopePop]
EnumScopePop(tok, gap) ==
  /\ pc \in {"enum_body", "enum_ident", "enum_val"} /\ tok = "}"
  /\ Read(tok, gap)
  /\ LET e1 == [enums EXCEPT !.namespaces = Deliver(@, nsDecScope(@))]
         sent == IF e1.subscribed THEN enumAvailable(e1) ELSE <<>>
     IN /\ enums' = Deliver(e1, enumScopePop(e1))
        /\ enumOut' = sent
        /\ classes' = [classes EXCEPT !.namespaces = Deliver(@, nsDecScope(@))]
        /\ g' = IF sent = <<>>
                THEN [g EXCEPT !.braceDepth = @ - 1]
                ELSE [g EXCEPT !.braceDepth = @ - 1, !.openEnum = @ - 1]
  /\ scopeDepth' = scopeDepth - 1
  /\ currentEnumName' = ""
  /\ pc' = "enum_close"
  /\ classOut' = <<>>
  /\ memberOut' = <<>>
  /\ UNCHANGED <<held, nparse, ret, leftover, lbl, gen, benchVars, parser>>

\* enumGrammar and enumClassGrammar: x3::lit(";")
EnumSemicolon(tok, gap) ==
  /\ pc = "enum_close" /\ tok = ";"
  /\ Read(tok, gap)
  /\ pc' = "top"
  /\ NoSignal
  /\ UNCHANGED <<held, nparse, ret, leftover, lbl, gen, benchVars, parser, scopeDepth,
                 currentEnumName, enums, classes, g>>

\* classGrammar: *annotation [handleAnnotation] in front of the keyword
ClassAnnotation(tok, gap) ==
  /\ pc \in {"top", "cls_ann"} /\ tok \in Anns
  /\ Read(tok, gap)
  /\ classes' = Deliver(classes,
                         ClassDriver_handleAnnotation(classes, AnnText(tok)))
  /\ pc' = "cls_ann"
  /\ g' = [g EXCEPT !.preCereal = @ \/ Contains(AnnText(tok), cerealText)]
  /\ NoSignal
  /\ UNCHANGED <<held, nparse, ret, leftover, lbl, gen, benchVars, parser, scopeDepth,
                 currentEnumName, enums>>

\* classGrammar: classKeyword
ClassKeyword(tok, gap) ==
  /\ pc \in {"top", "cls_ann"} /\ tok = "class"
  /\ Read(tok, gap)
  /\ pc' = "cls_kw"
  /\ g' = [g EXCEPT !.kwStruct = FALSE]
  /\ NoSignal
  /\ UNCHANGED <<held, nparse, ret, leftover, lbl, gen, benchVars, parser, scopeDepth,
                 currentEnumName, enums, classes>>

\* classGrammar: structKeyword [handleStructKeyword]
handleStructKeyword(tok, gap) ==
  /\ pc \in {"top", "cls_ann"} /\ tok = "struct"
  /\ Read(tok, gap)
  /\ parser' = [parser EXCEPT !.inClassStruct = TRUE]
  /\ pc' = "cls_kw"
  /\ g' = [g EXCEPT !.kwStruct = TRUE]
  /\ NoSignal
  /\ UNCHANGED <<held, nparse, ret, leftover, lbl, gen, benchVars, scopeDepth, currentEnumName,
                 enums, classes>>

\* the test of the lambda handleClassPush: structPush or classPush
PushesStruct(p) == p.inClassStruct

\* classGrammar: identifier [handleClassPush]
handleClassPush(tok, gap) ==
  /\ pc = "cls_kw" /\ IsWord(tok)
  /\ Read(tok, gap)
  /\ classes' = Deliver(classes,
                    IF ~PushesStruct(parser) THEN handleClass(classes, tok)
                    ELSE handleStruct(classes, tok))
  /\ pc' = "cls_id"
  /\ g' = [g EXCEPT !.cDeclNs = LexNs, !.cDeclStruct = g.kwStruct,
                    !.cDeclCereal = g.preCereal, !.preCereal = FALSE,
                    !.openClass = @ + 1, !.cName = tok,
                    !.annCereal = FALSE, !.annGet = FALSE, !.annSet = FALSE,
                    !.entry = <<"", "">>, !.cMembers = <<>>, !.cMethods = <<>>,
                    !.parentEvents = <<>>,
                    !.access = IF g.kwStruct THEN "public" ELSE "private",
                    !.mAccess = <<>>, !.fAccess = <<>>]
  /\ NoSignal
  /\ UNCHANGED <<held, nparse, ret, leftover, lbl, gen, benchVars, parser, scopeDepth,
                 currentEnumName, enums>>

\* classGrammar: the x3::lit(":") of the optional inheritance clause
ClassColon(tok, gap) ==
  /\ pc = "cls_id" /\ tok = ":"
  /\ Read(tok, gap)
  /\ pc' = "par_first"
  /\ NoSignal
  /\ UNCHANGED <<held, nparse, ret, leftover, lbl, gen, benchVars, parser, scopeDepth,
                 currentEnumName, enums, classes, g>>

\* privateClassParentGrammar: -privateKeyword, when the keyword is there
ParentPrivateKeyword(tok, gap) ==
  /\ pc \in {"par_first", "par_more"} /\ tok = "private"
  /\ Read(tok, gap)
  /\ pc' = "par_kw"
  /\ NoSignal
  /\ UNCHANGED <<held, nparse, ret, leftover, lbl, gen, benchVars, parser, scopeDepth,
                 currentEnumName, enums, classes, g>>

\* The signal sent for a parent that starts at the lexeme tok: the first of
\* privateClassParentGrammar | protectedClassParentGrammar |
\* publicClassParentGrammar that matches there.  The first one reads an
\* optional privateKeyword and then an enhancedIdentifier.
ParentAlternative(tok) ==
  IF tok = "private" \/ IsEnhancedIdentifier(tok) THEN "privateClassParent"
  ELSE IF tok = "protected" THEN "protectedClassParent"
  ELSE IF tok = "public" THEN "publicClassParent"
  ELSE "none"

\* classGrammar: enhancedIdentifier [handlePrivateClassParent] and its two
\* siblings, with the subscriber of ClassDriver::regParser
handleClassParent(tok, gap) ==
  /\ \/ pc = "par_kw"
     \/ pc \in {"par_first", "par_more"} /\ tok # "private"
  /\ IsEnhancedIdentifier(tok)
  /\ Read(tok, gap)
  /\ classes' = Deliver(classes, classParentSub(classes, tok))
  /\ g' = [g EXCEPT !.parentEvents =
              Append(@, <<IF pc = "par_kw" THEN "privateClassParent"
                          ELSE ParentAlternative(tok), tok>>)]
  /\ pc' = "par_more"
  /\ NoSignal
  /\ UNCHANGED <<held, nparse, ret, leftover, lbl, gen, benchVars, parser, scopeDepth,
                 currentEnumName, enums>>

\* classGrammar: x3::lit("{"), which is not the scopePush rule
ClassOpen(tok, gap) ==
  /\ pc \in {"cls_id", "par_more"} /\ tok = "{"
  /\ Read(tok, gap)
  /\ pc' = "body"
  /\ NoSignal
  /\ UNCHANGED <<held, nparse, ret, leftover, lbl, gen, benchVars, parser, scopeDepth,
                 currentEnumName, enums, classes, g>>

\* classGrammar body: annotation [handleAnnotation]
BodyAnnotation(tok, gap) ==
  /\ pc \in BodyStart /\ tok \in Anns
  /\ Read(tok, gap)
  /\ classes' = Deliver(classes,
                         ClassDriver_handleAnnotation(classes, AnnText(tok)))
  /\ pc' = "body"
  /\ g' = [g EXCEPT !.annCereal = @ \/ Contains(AnnText(tok), cerealText),
                    !.annGet = @ \/ Contains(AnnText(tok), getText),
                    !.annSet = @ \/ Contains(AnnText(tok), setText)]
  /\ NoSignal
  /\ UNCHANGED <<held, nparse, ret, leftover, lbl, gen, benchVars, parser, scopeDepth,
                 currentEnumName, enums>>

\* classGrammar body: publicKeyword [handlePublicInClass] and its two
\* siblings.  constructorDestructor, tried before them, fails on the lexeme
\* after the keyword, which is no parameter list.
handleAccessInClass(tok, gap) ==
  /\ pc \in BodyStart /\ tok \in AccessKeywords
  /\ Read(tok, gap)
  /\ classes' = Deliver(classes, handleAccess(classes, tok))
  /\ held' = tok
  /\ pc' = "body_acc"
  /\ NoSignal
  /\ UNCHANGED <<nparse, ret, leftover, lbl, gen, benchVars, parser, scopeDepth, currentEnumName,
                 enums, g>>

\* classGrammar body: the x3::lit(":") after an access keyword
AccessColon(tok, gap) ==
  /\ pc = "body_acc" /\ tok = ":"
  /\ Read(tok, gap)
  /\ held' = ""
  /\ pc' = "body"
  /\ g' = [g EXCEPT !.access = held]
  /\ NoSignal
  /\ UNCHANGED <<nparse, ret, leftover, lbl, gen, benchVars, parser, scopeDepth, currentEnumName,
                 enums, classes>>

\* classGrammar body: a word, which constructorDestructor reads as identifier
\* and, if no parameter list follows, enhancedIdIdGrammar reads as the type
BodyWord(tok, gap) ==
  /\ pc \in BodyStart /\ IsWord(tok)
  /\ Read(tok, gap)
  /\ held' = tok
  /\ pc' = "body_w"
  /\ NoSignal
  /\ UNCHANGED <<nparse, ret, leftover, lbl, gen, benchVars, parser, scopeDepth, currentEnumName,
                 enums, classes, g>>

\* constructorDestructor: identifier >> parameterGrammar
Constructor(tok, gap) ==
  /\ pc = "body_w" /\ tok = "()"
  /\ Read(tok, gap)
  /\ held' = ""
  /\ pc' = "ctor_tail"
  /\ NoSignal
  /\ UNCHANGED <<nparse, ret, leftover, lbl, gen, benchVars, parser, scopeDepth, currentEnumName,
                 enums, classes, g>>

\* constructorDestructor: the x3::char_(';') of its trailing repetition
ConstructorSemicolon(tok, gap) ==
  /\ pc = "ctor_tail" /\ tok = ";"
  /\ Read(tok, gap)
  /\ NoSignal
  /\ UNCHANGED <<pc, held, nparse, ret, leftover, lbl, gen, benchVars, parser, scopeDepth,
                 currentEnumName, enums, classes, g>>

\* enhancedIdIdGrammar: enhancedIdentifier [handleInClassEnhancedIdentifier]
\* >> identifier [handleInClassIdentifier]
EnhancedIdId(tok, gap) ==
  /\ pc = "body_w" /\ IsWord(tok)
  /\ Read(tok, gap)
  /\ parser' = [parser EXCEPT !.inClassEnhancedIdentifier = held,
                              !.inClassIdentifier = tok]
  /\ held' = ""
  /\ pc' = "body_ww"
  /\ g' = [g EXCEPT !.entry = <<held, tok>>]
  /\ NoSignal
  /\ UNCHANGED <<nparse, ret, leftover, lbl, gen, benchVars, scopeDepth, currentEnumName, enums,
                 classes>>

\* methodOrMember: -x3::char_(';') [handleMemberFound]
handleMemberFound(tok, gap) ==
  /\ pc = "body_ww" /\ tok = ";"
  /\ Read(tok, gap)
  /\ classes' = Deliver(classes,
                    ClassDriver_handleMemberFound(classes, parser.inClassConst,
                      parser.inClassStatic, parser.inClassEnhancedIdentifier,
                      parser.inClassIdentifier))
  /\ memberOut' = IF ~classes.subscribed THEN <<>> ELSE
                  <<[md |-> NewMemberData(classes, parser.inClassConst,
                               parser.inClassStatic, parser.inClassEnhancedIdentifier,
                               parser.inClassIdentifier),
                      annCereal |-> g.annCereal, annGet |-> g.annGet,
                      annSet |-> g.annSet]>>
  /\ parser' = resetInClassFlags(parser)
  /\ pc' = "body"
  /\ g' = [g EXCEPT !.annCereal = FALSE, !.annGet = FALSE, !.annSet = FALSE,
                    !.cMembers = Append(@, g.entry), !.entry = <<"", "">>,
                    !.mAccess = Append(@, g.access)]
  /\ enumOut' = <<>>
  /\ classOut' = <<>>
  /\ UNCHANGED <<held, nparse, ret, leftover, lbl, gen, benchVars, scopeDepth, currentEnumName,
                 enums>>

\* methodOrMember, second alternative: parameterGrammar
ParameterGrammar(tok, gap) ==
  /\ pc \in BodyStart /\ tok = "()"
  /\ Read(tok, gap)
  /\ pc' = "method_tail"
  /\ NoSignal
  /\ UNCHANGED <<held, nparse, ret, leftover, lbl, gen, benchVars, parser, scopeDepth,
                 currentEnumName, enums, classes, g>>

\* methodOrMember: -(x3::char_(';') | ignoreScopes) [handleMethodFound]
handleMethodFound(tok, gap) ==
  /\ pc = "method_tail" /\ tok = ";"
  /\ Read(tok, gap)
  /\ classes' = Deliver(classes,
                    ClassDriver_handleMethodFound(classes, parser.inClassConst,
                      parser.inClassStatic, parser.inClassVirtual,
                      parser.inClassEnhancedIdentifier, parser.inClassIdentifier))
  /\ parser' = resetInClassFlags(parser)
  /\ pc' = "body"
  /\ g' = [g EXCEPT !.annCereal = FALSE, !.annGet = FALSE, !.annSet = FALSE,
                    !.cMethods = Append(@, g.entry), !.entry = <<"", "">>,
                    !.fAccess = Append(@, g.access)]
  /\ NoSignal
  /\ UNCHANGED <<held, nparse, ret, leftover, lbl, gen, benchVars, scopeDepth, currentEnumName,
                 enums>>

\* classGrammar: the '}' of x3::lit("};")
ClassCloseBrace(tok, gap) ==
  /\ pc \in BodyStart /\ tok = "}"
  /\ Read(tok, gap)
  /\ pc' = "cls_rbrace"
  /\ NoSignal
  /\ UNCHANGED <<held, nparse, ret, leftover, lbl, gen, benchVars, parser, scopeDepth,
                 currentEnumName, enums, classes, g>>

\* classGrammar: x3::lit("};") [handleClassPop]; a literal is matched
\* character by character, nothing is skipped inside it
handleClassPop(tok, gap) ==
  /\ pc = "cls_rbrace" /\ tok = ";" /\ ~gap
  /\ Read(tok, gap)
  /\ classOut' = IF classes.classPopSub THEN classAvailable(classes) ELSE <<>>
  /\ classes' = IF classes.classPopSub THEN ClassDriver_handleClassPop(classes)
                ELSE classes
  /\ pc' = "top"
  /\ g' = [g EXCEPT !.openClass = @ - 1, !.preCereal = FALSE]
  /\ enumOut' = <<>>
  /\ memberOut' = <<>>
  /\ UNCHANGED <<held, nparse, ret, leftover, lbl, gen, benchVars, parser, scopeDepth,
                 currentEnumName, enums>>

\* templateClassGrammar: templateKeyword
TemplateKeyword(tok, gap) ==
  /\ pc = "top" /\ tok = "template"
  /\ Read(tok, gap)
  /\ pc' = "tpl_kw"
  /\ NoSignal
  /\ UNCHANGED <<held, nparse, ret, leftover, lbl, gen, benchVars, parser, scopeDepth,
                 currentEnumName, enums, classes, g>>

\* templateClassGrammar: templateGuts >> (classKeyword | structKeyword) >>
\* identifier >> x3::lit("{"), none of which has an action
TemplateHead(tok, gap) ==
  /\ pc \in {"tpl_kw", "tpl_guts", "tpl_cls", "tpl_id"}
  /\ Read(tok, gap)
  /\ \/ pc = "tpl_kw" /\ tok = "<T>" /\ pc' = "tpl_guts"
     \/ pc = "tpl_guts" /\ tok \in {"class", "struct"} /\ pc' = "tpl_cls"
     \/ pc = "tpl_cls" /\ IsWord(tok) /\ pc' = "tpl_id"
     \/ pc = "tpl_id" /\ tok = "{" /\ pc' = "tpl_body"
  /\ NoSignal
  /\ UNCHANGED <<held, nparse, ret, leftover, lbl, gen, benchVars, parser, scopeDepth,
                 currentEnumName, enums, classes, g>>

\* templateClassGrammar: *(x3::char_ - "};"), over the characters of one
\* lexeme; a '}' may be the first character of the "};" that ends the
\* repetition
TemplateChar(tok, gap) ==
  /\ pc \in {"tpl_body", "tpl_rbrace"}
  /\ ~(pc = "tpl_rbrace" /\ tok = ";" /\ ~gap)
  /\ Read(tok, gap)
  /\ pc' = IF tok = "}" THEN "tpl_rbrace" ELSE "tpl_body"
  /\ NoSignal
  /\ UNCHANGED <<held, nparse, ret, leftover, lbl, gen, benchVars, parser, scopeDepth,
                 currentEnumName, enums, classes, g>>

\* templateClassGrammar: x3::lit("};")
TemplateClose(tok, gap) ==
  /\ pc = "tpl_rbrace" /\ tok = ";" /\ ~gap
  /\ Read(tok, gap)
  /\ pc' = "top"
  /\ NoSignal
  /\ UNCHANGED <<held, nparse, ret, leftover, lbl, gen, benchVars, parser, scopeDepth,
                 currentEnumName, enums, classes, g>>

\* the steps that send a signal to which EnumDriver::regParser subscribed
EnumEvents(tok, gap) ==
  \/ handleEnumPush(tok, gap) \/ handleEnumClassPush(tok, gap)
  \/ handleEnumIdentifier(tok, gap) \/ EnumScopePop(tok, gap)

\* the steps that send a signal to which NamespaceDriver::regParser subscribed
ScopeEvents(tok, gap) ==
  \/ handleNamespaceIdentifier(tok, gap) \/ NamespaceScopePush(tok, gap)
  \/ EnumScopePush(tok, gap) \/ EnumScopePop(tok, gap)

\* the steps that send a signal whose connection ClassDriver::regParser put
\* in subscriptions
ClassEvents(tok, gap) ==
  \/ ClassAnnotation(tok, gap) \/ handleClassPush(tok, gap)
  \/ handleClassParent(tok, gap) \/ BodyAnnotation(tok, gap)
  \/ handleAccessInClass(tok, gap) \/ handleMemberFound(tok, gap)
  \/ handleMethodFound(tok, gap)

\* the next lexeme makes a signal call a subscriber that captured a driver
\* whose lifetime has ended
CallsDestroyed(tok, gap) ==
  \/ enums.destroyed /\ enums.subscribed /\ ENABLED EnumEvents(tok, gap)
  \/ enums.destroyed /\ enums.namespaces.subscribed
       /\ ENABLED ScopeEvents(tok, gap)
  \/ classes.destroyed /\ classes.subscribed /\ ENABLED ClassEvents(tok, gap)
  \/ classes.destroyed /\ classes.namespaces.subscribed
       /\ ENABLED ScopeEvents(tok, gap)
  \/ classes.destroyed /\ classes.classPopSub
       /\ ENABLED handleClassPop(tok, gap)

\* Such a call has undefined behaviour.  Either the storage still holds the
\* driver and the step of the grammar goes as ever, or the program ends here.
DanglingCall ==
  /\ \E tok \in Lexemes, gap \in BOOLEAN : CallsDestroyed(tok, gap)
  /\ pc' = "crashed"
  /\ NoSignal
  /\ UNCHANGED <<family, held, ntok, nparse, ret, leftover, lbl, gen, benchVars, parser, scopeDepth,
                 currentEnumName, enums, classes, g, tpl, inh>>

\* -------------------------------------------------------------- the end of parse
\* No alternative goes on: the alternative being read fails and the
\* repetition of programGrammar ends where that alternative began.  A
\* repetition succeeds however often it matched, so phrase_parse, which
\* returns what the grammar returned, returns true.
PhraseParseResult == "true"

\* the word held at a class-body entry was matched by enhancedIdentifier,
\* whose action fired, before the identifier after it failed
FailedEntry(p) ==
  IF pc \in {"body_w", "body_acc"}
  THEN [p EXCEPT !.inClassEnhancedIdentifier = held] ELSE p

\* rest: whether a lexeme stands after the point at which the grammar stopped
Return(rest) ==
  /\ pc' = "returned"
  /\ ret' = PhraseParseResult
  /\ leftover' = (rest \/ pc # "top")
  /\ parser' = FailedEntry(parser)
  /\ held' = ""
  /\ NoSignal
  /\ g' = [g EXCEPT !.rejected = rest]
  /\ UNCHANGED <<family, nparse, scopeDepth, currentEnumName, enums, classes,
                 tpl, inh, lbl, gen, benchVars>>

\* the next lexeme is one that no alternative accepts at this position
Rejects(tok, gap) ==
  /\ Running
  /\ ntok < FamilyBudget(family)
  /\ InputOk(tok, gap)
  /\ ~Accepts(tok, gap)

Unrecognized(tok, gap) ==
  /\ Rejects(tok, gap)
  /\ ntok' = ntok
  /\ Return(TRUE)

\* the same step, for whichever lexeme it is that is not accepted
UnrecognizedToken ==
  /\ \E tok \in Lexemes, gap \in BOOLEAN : Rejects(tok, gap)
  /\ ntok' = ntok
  /\ Return(TRUE)

\* the input ends
EndOfInput ==
  /\ Running
  /\ ntok' = ntok
  /\ Return(FALSE)

\* one lexeme read by the grammar
Consume(tok, gap) ==
  \/ ScopePushTop(tok, gap) \/ ScopePopTop(tok, gap)
  \/ NamespaceKeyword(tok, gap) \/ handleNamespaceIdentifier(tok, gap)
  \/ NamespaceSeparator(tok, gap) \/ NamespaceScopePush(tok, gap)
  \/ EnumKeyword(tok, gap) \/ EnumClassKeyword(tok, gap)
  \/ handleEnumPush(tok, gap) \/ handleEnumClassPush(tok, gap)
  \/ EnumScopePush(tok, gap) \/ handleEnumIdentifier(tok, gap)
  \/ EnumAssign(tok, gap) \/ EnumValue(tok, gap)
  \/ EnumComma(tok, gap) \/ EnumScopePop(tok, gap) \/ EnumSemicolon(tok, gap)
  \/ ClassAnnotation(tok, gap) \/ ClassKeyword(tok, gap)
  \/ handleStructKeyword(tok, gap) \/ handleClassPush(tok, gap)
  \/ ClassColon(tok, gap) \/ ParentPrivateKeyword(tok, gap)
  \/ handleClassParent(tok, gap)
  \/ ClassOpen(tok, gap) \/ BodyAnnotation(tok, gap) \/ BodyWord(tok, gap)
  \/ handleAccessInClass(tok, gap) \/ AccessColon(tok, gap)
  \/ Constructor(tok, gap) \/ ConstructorSemicolon(tok, gap)
  \/ EnhancedIdId(tok, gap) \/ handleMemberFound(tok, gap)
  \/ ParameterGrammar(tok, gap) \/ handleMethodFound(tok, gap)
  \/ ClassCloseBrace(tok, gap) \/ handleClassPop(tok, gap)
  \/ TemplateKeyword(tok, gap) \/ TemplateHead(tok, gap)
  \/ TemplateChar(tok, gap) \/ TemplateClose(tok, gap)
  \/ Unrecognized(tok, gap)

\* Only handleClassPop, TemplateChar, TemplateClose and Unrecognized read gap other than through InputOk,
\* which a gap never makes false: for the other steps the step with a gap
\* stands for both.
Next ==
  \/ StartParse
  \/ \E tok \in Lexemes : ScopePushTop(tok, TRUE)
  \/ \E tok \in Lexemes : ScopePopTop(tok, TRUE)
  \/ \E tok \in Lexemes : NamespaceKeyword(tok, TRUE)
  \/ \E tok \in Lexemes : handleNamespaceIdentifier(tok, TRUE)
  \/ \E tok \in Lexemes : NamespaceSeparator(tok, TRUE)
  \/ \E tok \in Lexemes : NamespaceScopePush(tok, TRUE)
  \/ \E tok \in Lexemes : EnumKeyword(tok, TRUE)
  \/ \E tok \in Lexemes : EnumClassKeyword(tok, TRUE)
  \/ \E tok \in Lexemes : handleEnumPush(tok, TRUE)
  \/ \E tok \in Lexemes : handleEnumClassPush(tok, TRUE)
  \/ \E tok \in Lexemes : EnumScopePush(tok, TRUE)
  \/ \E tok \in Lexemes : handleEnumIdentifier(tok, TRUE)
  \/ \E tok \in Lexemes : EnumAssign(tok, TRUE)
  \/ \E tok \in Lexemes : EnumValue(tok, TRUE)
  \/ \E tok \in Lexemes : EnumComma(tok, TRUE)
  \/ \E tok \in Lexemes : EnumScopePop(tok, TRUE)
  \/ \E tok \in Lexemes : EnumSemicolon(tok, TRUE)
  \/ \E tok \in Lexemes : ClassAnnotation(tok, TRUE)
  \/ \E tok \in Lexemes : ClassKeyword(tok, TRUE)
  \/ \E tok \in Lexemes : handleStructKeyword(tok, TRUE)
  \/ \E tok \in Lexemes : handleClassPush(tok, TRUE)
  \/ \E tok \in Lexemes : ClassColon(tok, TRUE)
  \/ \E tok \in Lexemes : ParentPrivateKeyword(tok, TRUE)
  \/ \E tok \in Lexemes : handleClassParent(tok, TRUE)
  \/ \E tok \in Lexemes : ClassOpen(tok, TRUE)
  \/ \E tok \in Lexemes : handleAccessInClass(tok, TRUE)
  \/ \E tok \in Lexemes : AccessColon(tok, TRUE)
  \/ \E tok \in Lexemes : BodyAnnotation(tok, TRUE)
  \/ \E tok \in Lexemes : BodyWord(tok, TRUE)
  \/ \E tok \in Lexemes : Constructor(tok, TRUE)
  \/ \E tok \in Lexemes : ConstructorSemicolon(tok, TRUE)
  \/ \E tok \in Lexemes : EnhancedIdId(tok, TRUE)
  \/ \E tok \in Lexemes : handleMemberFound(tok, TRUE)
  \/ \E tok \in Lexemes : ParameterGrammar(tok, TRUE)
  \/ \E tok \in Lexemes : handleMethodFound(tok, TRUE)
  \/ \E tok \in Lexemes : ClassCloseBrace(tok, TRUE)
  \/ \E tok \in Lexemes, gap \in BOOLEAN : handleClassPop(tok, gap)
  \/ \E tok \in Lexemes : TemplateKeyword(tok, TRUE)
  \/ \E tok \in Lexemes : TemplateHead(tok, TRUE)
  \/ \E tok \in Lexemes, gap \in BOOLEAN : TemplateChar(tok, gap)
  \/ \E tok \in Lexemes, gap \in BOOLEAN : TemplateClose(tok, gap)
  \/ UnrecognizedToken
  \/ EndOfInput
  \/ \E d \in Drivers : unsubscribe(d)
  \/ \E d \in Drivers : clear(d)
  \/ \E d \in Drivers : Destroy(d)
  \/ DanglingCall

Spec == Init /\ [][Next]_vars

\* ============================================================== the line
\* by line pipeline of LblFilter.h, LblMiniParser.h and LblEmitFunctions.h
\*
\* A line is the sequence of its pieces: words, punctuation, annotations and
\* single blanks " ".  A generated line is the sequence of the pieces that
\* the code appends to it.  Text(line) is the std::string itself.
RECURSIVE Text(_)
Text(line) == IF line = <<>> THEN "" ELSE Head(line) \o Text(Tail(line))

\* lines read by one run of LblReader::process
MaxLines == 3
\* LblMiniparser, filters and writers of one pipeline
MaxNodes == 4

GetSetSentinel == "[[genGetSetMethods]]"
CerealSentinel == "[[genCerealLoadSave]]"

\* the lines of the input file, as std::getline hands them over (no line end)
InputLines ==
  { <<"class", " ", "Point", " ", "{">>,
    <<"struct", " ", "Other", " ", "{">>,
    <<"};">>,
    <<GetSetSentinel>>,
    <<" ", GetSetSentinel, " ">>,
    <<CerealSentinel>>,
    <<"int", " ", "x", ";">>,
    <<"int", " ", "x", ";", " ", "};">>,
    <<"friend", " ", "class", " ", "Point", ";">> }

\* a MemberData of the catalog
Member(type, name, getter, setter, ser) ==
  [type |-> type, name |-> name, isPublic |-> TRUE, isProtected |-> FALSE,
   isConst |-> FALSE, isStatic |-> FALSE, serializable |-> ser,
   generateGetter |-> getter, generateSetter |-> setter]

\* the ClassMap handed to the filters: class Point with the members x and y,
\* once with every getter and setter and the class marked serializable, once
\* with a getter and the serializable mark on x and a setter on y
Catalogs ==
  { <<[NewClassData EXCEPT !.name = "Point", !.serializable = TRUE,
         !.members = <<Member("int", "x", TRUE, TRUE, FALSE),
                       Member("int", "y", TRUE, TRUE, FALSE)>>]>>,
    <<[NewClassData EXCEPT !.name = "Point",
         !.members = <<Member("int", "x", TRUE, FALSE, TRUE),
                       Member("int", "y", FALSE, TRUE, FALSE)>>]>> }

\* LblMiniParserFilter::LblMiniParserFilter: _classes, indexed by the name of
\* each class; a later class of the same name replaces an earlier one
RECURSIVE LblMiniParserFilter(_)
LblMiniParserFilter(classMap) ==
  IF classMap = <<>> THEN <<>>
  ELSE LET last == classMap[Len(classMap)]
           rest == LblMiniParserFilter(SubSeq(classMap, 1, Len(classMap) - 1))
       IN  SelectSeq(rest, LAMBDA c : c.name # last.name) \o <<last>>

\* _classes.contains(className)
contains(classMap, className) ==
  \E i \in 1..Len(classMap) : classMap[i].name = className

\* _classes[className]
at(classMap, className) ==
  classMap[CHOOSE i \in 1..Len(classMap) : classMap[i].name = className]

Filters == {"LblEmitGetSetMethods", "LblEmitCerealMethods"}
Emitters == Filters \cup {"LblMiniparser"}
Kinds == Emitters \cup {"LblWriter"}

\* an object of the pipeline.  parent: the emitter it subscribed to (0: the
\* LblReader).  _classes, _currentClass: of a filter; _currentClass is <<>>
\* when the pointer is empty.  stream: what a LblWriter wrote
NewNode(kind, parent, classMap) ==
  [kind |-> kind, parent |-> parent,
   _classes |-> IF kind \in Filters THEN LblMiniParserFilter(classMap) ELSE <<>>,
   _currentClass |-> <<>>, stream |-> <<>>]

\* a LblReader and a LblMiniparser subscribed to it.  input: the lines read
\* so far.  cerr: the lines written to std::cerr.  log: the calls made while
\* the last line was processed
NewPipeline(classMap) ==
  [nodes |-> <<NewNode("LblMiniparser", 0, <<>>)>>, classMap |-> classMap,
   input |-> <<>>, cerr |-> <<>>, log |-> <<>>, eof |-> FALSE]

\* the slots of the signal `emit` of node n, in the order of their connect
RECURSIVE SlotsFrom(_, _, _)
SlotsFrom(nodes, n, c) ==
  IF c > Len(nodes) THEN <<>>
  ELSE (IF nodes[c].parent = n THEN <<c>> ELSE <<>>)
         \o SlotsFrom(nodes, n, c + 1)

\* the same slots, the last connected first
Slots_reversed(nodes, n) ==
  LET cs == SlotsFrom(nodes, n, 1)
  IN  [i \in 1..Len(cs) |-> cs[Len(cs) + 1 - i]]

Slots(nodes, n) == SlotsFrom(nodes, n, 1)

\* the slots of the signals classPush and classPop of node n: the filters
\* among its subscribers (a LblWriter connects to emit alone)
ClassSlots(nodes, n) ==
  SelectSeq(Slots(nodes, n), LAMBDA c : nodes[c].kind \in Filters)

\* one entry of the log.  ev: "publish" and "published" around a call of a
\* signal, "call" and "return" around a slot, "cerr" for a line written to
\* std::cerr.  cur: _currentClass of the node at that moment
Event(ev, n, chan, arg, st) ==
  [ev |-> ev, node |-> n, chan |-> chan, arg |-> arg,
   cur |-> st.nodes[n]._currentClass]

Log(st, ev, n, chan, arg) ==
  [st EXCEPT !.log = Append(@, Event(ev, n, chan, arg, st))]

\* std::cerr << text << std::endl, by node n
Diagnose(st, n, text) ==
  Log([st EXCEPT !.cerr = Append(@, text)], "cerr", n, "cerr", text)

\* the copy of the line with all white space removed, compared with a
\* sentinel.  Of the pieces of an input line only " " holds white space; the
\* pieces of a generated line that hold some also hold characters that no
\* sentinel has
IsSentinel(line, sentinel) ==
  Text(SelectSeq(line, LAMBDA p : p # " ")) = sentinel

\* ignoreGrammar: white space and annotations (singleLineComment needs an
\* x3::eol, which a line read by std::getline does not have)
IsIgnored(p) == p = " " \/ p \in {GetSetSentinel, CerealSentinel}

RECURSIVE Skip(_)
Skip(line) ==
  IF line # <<>> /\ IsIgnored(Head(line)) THEN Skip(Tail(line)) ELSE line

\* miniparser::identifier
IsIdentifier(p) ==
  p \in {"class", "struct", "Point", "Other", "int", "x", "friend"}

\* watchForGrammar of LblMiniparser::process, matched by x3::phrase_parse at
\* the start of the line: <<"classPush", name>>, <<"classPop">> or <<>>
watchForGrammar(line) ==
  LET r == Skip(line)
      i == IF r = <<>> THEN <<>> ELSE Skip(Tail(r))
  IN  IF r = <<>> THEN <<>>
      ELSE IF Head(r) \in {"class", "struct"} /\ i # <<>> /\ IsIdentifier(Head(i))
      THEN <<"classPush", Head(i)>>
      ELSE IF Head(r) = "};" THEN <<"classPop">>
      ELSE <<>>

RECURSIVE process(_, _, _), emitTo(_, _, _), emit(_, _, _),
          classPushTo(_, _, _), classPush(_, _, _), handleClassPushLbl(_, _, _),
          classPopTo(_, _), classPop(_, _), handleClassPopLbl(_, _),
          emitAll(_, _, _)

\* the slots cs of a signal emit are called one after the other
emitTo(st, cs, line) ==
  IF cs = <<>> THEN st ELSE emitTo(process(st, Head(cs), line), Tail(cs), line)

\* emit(line) of node n
emit(st, n, line) ==
  Log(emitTo(Log(st, "publish", n, "emit", line), Slots(st.nodes, n), line),
      "published", n, "emit", line)

\* emit of every line of a list, one after the other
emitAll(st, n, lines) ==
  IF lines = <<>> THEN st
  ELSE emitAll(emit(st, n, Head(lines)), n, Tail(lines))

classPushTo(st, cs, className) ==
  IF cs = <<>> THEN st
  ELSE classPushTo(handleClassPushLbl(st, Head(cs), className), Tail(cs),
                   className)

\* classPush(className) of node n
classPush(st, n, className) ==
  Log(classPushTo(Log(st, "publish", n, "classPush", <<className>>),
                  ClassSlots(st.nodes, n), className),
      "published", n, "classPush", <<className>>)

classPopTo(st, cs) ==
  IF cs = <<>> THEN st ELSE classPopTo(handleClassPopLbl(st, Head(cs)), Tail(cs))

\* classPop() of node n
classPop(st, n) ==
  Log(classPopTo(Log(st, "publish", n, "classPop", <<>>),
                 ClassSlots(st.nodes, n)),
      "published", n, "classPop", <<>>)

\* LblMiniParserFilter::handleClassPush
handleClassPushLbl(st, n, className) ==
  LET s0 == Log(st, "call", n, "classPush", <<className>>)
      s1 == IF contains(s0.nodes[n]._classes, className)
            THEN [s0 EXCEPT !.nodes[n]._currentClass =
                              <<at(s0.nodes[n]._classes, className)>>]
            ELSE Diagnose(s0, n, <<"WARNING: Class ", className,
                                   " was not found in class data">>)
  IN  Log(classPush(s1, n, className), "return", n, "classPush", <<className>>)

\* LblMiniParserFilter::handleClassPop
handleClassPopLbl(st, n) ==
  LET s0 == Log(st, "call", n, "classPop", <<>>)
      s1 == [s0 EXCEPT !.nodes[n]._currentClass = <<>>]
  IN  Log(classPop(s1, n), "return", n, "classPop", <<>>)

\* the line emitGetMethods builds for a member
GetterLine(m) == <<m.type, " get", m.name, "() const { return ", m.name, "; }">>

\* the line emitSetMethods builds for a member
SetterLine(m) ==
  <<"void set", m.name, "(const ", m.type, "& val) ", "{ ", m.name, " = val; }">>

\* the line emitSaveMethod builds for a member
SaveLine(m) == <<"ar(cereal::make_nvp(\"", m.name, "\",", m.name, "));">>

\* the line emitLoadMethod builds for a member
LoadLine(m) == <<"ar(", m.name, ");">>

\* LblEmitGetSetMethods::emitGetMethods
emitGetMethods(st, n) ==
  LET members == SelectSeq(st.nodes[n]._currentClass[1].members,
                           LAMBDA m : m.generateGetter)
  IN  emitAll(st, n, [i \in 1..Len(members) |-> GetterLine(members[i])])

\* LblEmitGetSetMethods::emitSetMethods
emitSetMethods(st, n) ==
  LET members == SelectSeq(st.nodes[n]._currentClass[1].members,
                           LAMBDA m : m.generateSetter)
  IN  emitAll(st, n, [i \in 1..Len(members) |-> SetterLine(members[i])])

\* the same, by the flag of the member alone
Serialized_memberOnly(c, m) == m.serializable

\* member.serializable | _currentClass->serializable
Serialized(c, m) == m.serializable \/ c.serializable

\* LblEmitCerealMethods::emitSaveMethod
emitSaveMethod(st, n) ==
  LET c == st.nodes[n]._currentClass[1]
      members == SelectSeq(c.members, LAMBDA m : Serialized(c, m))
  IN  emitAll(st, n,
        <<<<"template <typename Archive>">>,
          <<"void save(Archive& ar) const {">>>>
        \o [i \in 1..Len(members) |-> SaveLine(members[i])]
        \o <<<<"}">>>>)

\* LblEmitCerealMethods::emitLoadMethod
emitLoadMethod(st, n) ==
  LET c == st.nodes[n]._currentClass[1]
      members == SelectSeq(c.members, LAMBDA m : Serialized(c, m))
  IN  emitAll(st, n,
        <<<<"template <typename Archive>">>, <<"void load(Archive& ar) {">>>>
        \o [i \in 1..Len(members) |-> LoadLine(members[i])]
        \o <<<<"}">>>>)

\* the same, with the getter and the setter of each member together
LblEmitGetSetMethods_process_byMember(st, n, line) ==
  IF IsSentinel(line, GetSetSentinel)
  THEN IF st.nodes[n]._currentClass # <<>>
       THEN LET ms == st.nodes[n]._currentClass[1].members
                RECURSIVE each(_, _)
                each(s, i) ==
                  IF i > Len(ms) THEN s
                  ELSE each(emitAll(s, n,
                         (IF ms[i].generateGetter THEN <<GetterLine(ms[i])>>
                          ELSE <<>>)
                         \o (IF ms[i].generateSetter THEN <<SetterLine(ms[i])>>
                             ELSE <<>>)), i + 1)
            IN  each(st, 1)
       ELSE Diagnose(st, n,
              <<"WARNING: [[genGetSetMethods]] encountered, but not in a class">>)
  ELSE emit(st, n, line)

\* LblEmitGetSetMethods::process
LblEmitGetSetMethods_process(st, n, line) ==
  IF IsSentinel(line, GetSetSentinel)
  THEN IF st.nodes[n]._currentClass # <<>>
       THEN emitSetMethods(emitGetMethods(st, n), n)
       ELSE Diagnose(st, n,
              <<"WARNING: [[genGetSetMethods]] encountered, but not in a class">>)
  ELSE emit(st, n, line)

\* LblEmitCerealMethods::process
LblEmitCerealMethods_process(st, n, line) ==
  IF IsSentinel(line, CerealSentinel)
  THEN IF st.nodes[n]._currentClass # <<>>
       THEN emitLoadMethod(emitSaveMethod(st, n), n)
       ELSE Diagnose(st, n,
              <<"WARNING: [[genCerealLoadSave]] encountered, but not in a class">>)
  ELSE emit(st, n, line)

\* the same, with emit(line) in the else branch of the recognizer
LblMiniparser_process_consuming(st, n, line) ==
  LET w == watchForGrammar(line)
  IN  IF w = <<>> THEN emit(st, n, line)
      ELSE IF w[1] = "classPush" THEN classPush(st, n, w[2])
      ELSE classPop(st, n)

\* the same, with emit(line) in front of the recognizer
LblMiniparser_process_lineFirst(st, n, line) ==
  LET w == watchForGrammar(line)
      s1 == emit(st, n, line)
  IN  IF w = <<>> THEN s1
      ELSE IF w[1] = "classPush" THEN classPush(s1, n, w[2])
      ELSE classPop(s1, n)

\* LblMiniparser::process: the signals of the line, then the line
LblMiniparser_process(st, n, line) ==
  LET w == watchForGrammar(line)
      s1 == IF w = <<>> THEN st
            ELSE IF w[1] = "classPush" THEN classPush(st, n, w[2])
            ELSE classPop(st, n)
  IN  emit(s1, n, line)

\* LblWriter::process
LblWriter_process(st, n, line) == [st EXCEPT !.nodes[n].stream = Append(@, line)]

\* the slot that subscribeTo connected for node n: process(toProcess)
process(st, n, line) ==
  LET k == st.nodes[n].kind
      s0 == Log(st, "call", n, "emit", line)
      s1 == CASE k = "LblMiniparser" -> LblMiniparser_process(s0, n, line)
              [] k = "LblEmitGetSetMethods" ->
                   LblEmitGetSetMethods_process(s0, n, line)
              [] k = "LblEmitCerealMethods" ->
                   LblEmitCerealMethods_process(s0, n, line)
              [] OTHER -> LblWriter_process(s0, n, line)
  IN  Log(s1, "return", n, "emit", line)

\* a filter or a writer is constructed and subscribes to emitter p; a filter
\* connects to emit, classPush and classPop of p, a writer to emit
subscribeTo(kind, p) ==
  /\ lbl.nodes # <<>>
  /\ lbl.input = <<>>
  /\ ~lbl.eof
  /\ Len(lbl.nodes) < MaxNodes
  /\ p \in 1..Len(lbl.nodes)
  /\ lbl.nodes[p].kind \in Emitters
  /\ lbl' = [lbl EXCEPT !.nodes = Append(@, NewNode(kind, p, lbl.classMap))]
  /\ UNCHANGED <<parserVars, gen, benchVars>>

\* LblReader::process, one turn of its loop: std::getline read a line and
\* emit(line) calls the subscriber of the reader
LblReader_process(line) ==
  /\ lbl.nodes # <<>>
  /\ ~lbl.eof
  /\ Len(lbl.input) < MaxLines
  /\ lbl' = [process([lbl EXCEPT !.log = <<>>], 1, line)
               EXCEPT !.input = Append(@, line)]
  /\ UNCHANGED <<parserVars, gen, benchVars>>

\* LblReader::process, the end of its loop: std::getline found no line
LblReader_return ==
  /\ lbl.nodes # <<>>
  /\ ~lbl.eof
  /\ lbl' = [lbl EXCEPT !.eof = TRUE, !.log = <<>>]
  /\ UNCHANGED <<parserVars, gen, benchVars>>

\* no ParserDriver takes part in the pipeline
NoParser ==
  /\ pc = "idle"
  /\ family = "any"
  /\ held = ""
  /\ ntok = 0
  /\ nparse = 0
  /\ ret = "none"
  /\ leftover = FALSE
  /\ parser = [inClassConst |-> FALSE, inClassStatic |-> FALSE,
               inClassVirtual |-> FALSE, inClassStruct |-> FALSE,
               inClassEnhancedIdentifier |-> "", inClassIdentifier |-> ""]
  /\ scopeDepth = 0
  /\ currentEnumName = ""
  /\ enums = NewEnumDriver
  /\ classes = NewClassDriver
  /\ enumOut = <<>>
  /\ classOut = <<>>
  /\ memberOut = <<>>
  /\ g = NewHistory
  /\ tpl = NoTemplate
  /\ inh = NoParents

LblInit ==
  /\ NoParser
  /\ NoBench
  /\ \E classMap \in Catalogs : lbl = NewPipeline(classMap)
  /\ gen = NoGenerator

LblNext ==
  \/ \E kind \in Kinds \ {"LblMiniparser"}, p \in 1..MaxNodes :
       subscribeTo(kind, p)
  \/ \E line \in InputLines : LblReader_process(line)
  \/ LblReader_return

LblSpec == LblInit /\ [][LblNext]_vars

\* ============================================================== generateSource
\* of GenerateEnumFunctions.cpp, run by main after a successful parse on the
\* enums the EnumDriver collected
\*
\* enums of one catalog
MaxEnums == 2

\* the EnumData of the catalog
EnumChoices ==
  {[namespaces |-> ns, name |-> name, isClassEnum |-> sc, identifiers |-> ids] :
     ns \in {<<>>, <<"n">>, <<"n", "m">>}, name \in {"a", "b"},
     sc \in BOOLEAN, ids \in {<<"i">>, <<"i", "j">>}}

\* the place of the key of an enum among the keys of EnumChoices, as
\* std::map orders them: a, b, n::a, n::b, n::m::a, n::m::b
KeyRank(e) == 2 * Len(e.namespaces) + (IF e.name = "a" THEN 0 ELSE 1)

\* EnumData::enumNamespace: the namespaces with "::" between them
RECURSIVE enumNamespace(_)
enumNamespace(ns) ==
  IF ns = <<>> THEN <<>>
  ELSE IF Len(ns) = 1 THEN <<ns[1]>>
  ELSE enumNamespace(SubSeq(ns, 1, Len(ns) - 1)) \o <<"::", ns[Len(ns)]>>

\* the map from fully qualified name to EnumData that generateSource walks
\* through, in the order of its keys
NewGenerator(enumList) ==
  [phase |-> "to_string",
   enums |-> [k \in 1..Len(enumList) |->
                [first |-> namespaceKey(enumList[k]), second |-> enumList[k]]],
   it |-> 1, idIt |-> 1, source |-> <<>>]

\* the case label that generateSource writes for an identifier
CaseLabel(it, id) ==
  IF it.second.isClassEnum THEN it.first \o <<"::", id>>
  ELSE (IF enumNamespace(it.second.namespaces) # <<>>
        THEN enumNamespace(it.second.namespaces) \o <<"::">> ELSE <<>>)
       \o <<id>>

\* the string literal behind `return` in a case of to_string
ToStringLiteral(it, id) ==
  IF it.second.isClassEnum THEN it.first \o <<"::", id>> ELSE <<id>>

\* the string literal behind `stream <<` in a case of operator<<
StreamLiteral(it, id) ==
  IF it.second.isClassEnum THEN it.first \o <<"::", id>>
  ELSE (IF enumNamespace(it.second.namespaces) # <<>>
        THEN enumNamespace(it.second.namespaces) \o <<"::">> ELSE <<>>)
       \o <<id>>

GenRunning(phase) ==
  /\ gen.phase = phase
  /\ gen.it <= Len(gen.enums)

\* the head of to_string or of operator<< for the enum at gen.it
FunctionHead(fn) ==
  [fn |-> fn, type |-> gen.enums[gen.it].first, cases |-> <<>>,
   default |-> <<>>]

\* one turn of the first inner loop: a case of to_string
toStringCase ==
  /\ GenRunning("to_string")
  /\ gen.idIt <= Len(gen.enums[gen.it].second.identifiers)
  /\ LET it == gen.enums[gen.it]
         id == it.second.identifiers[gen.idIt]
         src == IF gen.idIt = 1 THEN Append(gen.source, FunctionHead("to_string"))
                ELSE gen.source
     IN  gen' = [gen EXCEPT
           !.source = [src EXCEPT ![Len(src)].cases =
                         Append(@, [label |-> CaseLabel(it, id),
                                    text |-> ToStringLiteral(it, id)])],
           !.idIt = @ + 1]
  /\ UNCHANGED <<parserVars, lbl, benchVars>>

\* the end of to_string: return "UNKNOWN VALUE"
toStringEnd ==
  /\ GenRunning("to_string")
  /\ gen.idIt > Len(gen.enums[gen.it].second.identifiers)
  /\ gen' = [gen EXCEPT
       !.source = [@ EXCEPT ![Len(@)].default = <<"UNKNOWN VALUE">>],
       !.phase = "operator<<", !.idIt = 1]
  /\ UNCHANGED <<parserVars, lbl, benchVars>>

\* one turn of the second inner loop: a case of operator<<
streamCase ==
  /\ GenRunning("operator<<")
  /\ gen.idIt <= Len(gen.enums[gen.it].second.identifiers)
  /\ LET it == gen.enums[gen.it]
         id == it.second.identifiers[gen.idIt]
         src == IF gen.idIt = 1 THEN Append(gen.source, FunctionHead("operator<<"))
                ELSE gen.source
     IN  gen' = [gen EXCEPT
           !.source = [src EXCEPT ![Len(src)].cases =
                         Append(@, [label |-> CaseLabel(it, id),
                                    text |-> StreamLiteral(it, id)])],
           !.idIt = @ + 1]
  /\ UNCHANGED <<parserVars, lbl, benchVars>>

\* the end of operator<<: default: stream << "UNKNOWN VALUE"; the outer loop
\* goes on to the next enum
streamEnd ==
  /\ GenRunning("operator<<")
  /\ gen.idIt > Len(gen.enums[gen.it].second.identifiers)
  /\ gen' = [gen EXCEPT
       !.source = [@ EXCEPT ![Len(@)].default = <<"UNKNOWN VALUE">>],
       !.phase = "to_string", !.idIt = 1, !.it = @ + 1]
  /\ UNCHANGED <<parserVars, lbl, benchVars>>

\* the outer loop has reached enums.end()
generateSource_return ==
  /\ gen.phase = "to_string"
  /\ gen.it > Len(gen.enums)
  /\ gen' = [gen EXCEPT !.phase = "done"]
  /\ UNCHANGED <<parserVars, lbl, benchVars>>

GenInit ==
  /\ NoParser
  /\ NoBench
  /\ lbl = NoPipeline
  /\ \E n \in 0..MaxEnums :
       \E enumList \in [1..n -> EnumChoices] :
         /\ \A k \in 1..(n - 1) : KeyRank(enumList[k]) < KeyRank(enumList[k + 1])
         /\ gen = NewGenerator(enumList)

GenNext ==
  \/ toStringCase
  \/ toStringEnd
  \/ streamCase
  \/ streamEnd
  \/ generateSource_return

GenSpec == GenInit /\ [][GenNext]_vars

\* -------------------------------------------------------------- properties
\* every name of seq a is a name of seq b
NamesWithin(a, b) == \A i \in 1..Len(a) : \E j \in 1..Len(b) : a[i] = b[j]

\* C1: a class declaration fires structPush, and commits isStruct = true, iff
\* it was introduced by the struct keyword, whatever was declared before it
\* in this or an earlier call of parse
C1_StructIffStructKeyword ==
  /\ pc = "cls_id" => (classes.currentClass.isStruct <=> g.kwStruct)
  /\ classOut # <<>> => (classOut[1].data.isStruct <=> g.cDeclStruct)

\* C2: an enum or class declared inside namespace N is committed with N and
\* every namespace enclosing N in its namespaces list, however many enums
\* and scopes were opened and closed inside N before it
C2_DeclaredNamespacesKept ==
  /\ enumOut # <<>> => NamesWithin(g.eDeclNs, enumOut[1].data.namespaces)
  /\ classOut # <<>> => NamesWithin(g.cDeclNs, classOut[1].data.namespaces)

\* C3: once the closing brace of namespace N was read, N is on the stack of
\* neither NamespaceDriver, and no declaration committed later has N in its
\* namespaces list
C3_ClosedNamespacesGone ==
  /\ NamesWithin(StackNames(enums.namespaces.namespaceStack), LexNs \o g.pendNs)
  /\ NamesWithin(StackNames(classes.namespaces.namespaceStack), LexNs \o g.pendNs)
  /\ enumOut # <<>> => NamesWithin(enumOut[1].data.namespaces, g.eDeclNs)
  /\ classOut # <<>> => NamesWithin(classOut[1].data.namespaces, g.cDeclNs)

\* C4: parse returns false whenever it stopped before the end of the input,
\* and true only when the whole input was consumed
C4_FalseOnUnconsumedInput ==
  pc = "returned" => (ret = "true" <=> ~leftover)

\* C5: every enumPush or enumClassPush is followed by exactly one committing
\* decScope, and every classPush or structPush by exactly one classPop,
\* before the next push of its kind and before parse returns
C5_PushesAreCommitted ==
  /\ g.openEnum \in {0, 1}
  /\ g.openClass \in {0, 1}
  /\ pc = "returned" => (g.openEnum = 0 /\ g.openClass = 0)

\* C6: a committed MemberData has serializable, generateGetter or
\* generateSetter set only if an annotation containing cereal, get or set
\* stood between the previous member or method and this member
C6_FlagsOnlyFromAnnotations ==
  memberOut # <<>> =>
    /\ memberOut[1].md.serializable => memberOut[1].annCereal
    /\ memberOut[1].md.generateGetter => memberOut[1].annGet
    /\ memberOut[1].md.generateSetter => memberOut[1].annSet

\* C7: an annotation inside a class body whose text contains cereal, get or
\* set, at any position, sets the matching flag of the next member
C7_AnnotationsSetFlags ==
  memberOut # <<>> =>
    /\ memberOut[1].annCereal => memberOut[1].md.serializable
    /\ memberOut[1].annGet => memberOut[1].md.generateGetter
    /\ memberOut[1].annSet => memberOut[1].md.generateSetter

\* C8: a committed ClassData is serializable iff an annotation containing
\* cereal stood in front of this class's keyword, after the class-pop before
\* it; annotations inside a body and those of an earlier class leave it alone
C8_ClassSerializableIffAnnotated ==
  classOut # <<>> => (classOut[1].data.serializable <=> g.cDeclCereal)

\* C9: whether the parser goes on at a lexeme does not depend on whether
\* blanks or comments stand in front of it, wherever both spellings are the
\* same lexemes
C9_WhitespaceInsensitive ==
  \A tok \in Tokens :
    (InputOk(tok, TRUE) /\ InputOk(tok, FALSE)) =>
      (ENABLED Unrecognized(tok, TRUE) <=> ENABLED Unrecognized(tok, FALSE))

\* C10: incScope and decScope are sent once per brace read by the scopePush
\* and scopePop rules, so the parser's scopeDepth and the scopeDepth of each
\* NamespaceDriver follow the depth of those braces, are never negative, and
\* are 0 again after a balanced input
C10_ScopeEventsFollowBraces ==
  /\ scopeDepth >= 0
  /\ enums.namespaces.scopeDepth >= 0
  /\ classes.namespaces.scopeDepth >= 0
  /\ (nparse = 1 /\ ~g.braceNeg) =>
        /\ scopeDepth = g.braceDepth
        /\ enums.namespaces.scopeDepth = g.braceDepth
        /\ classes.namespaces.scopeDepth = g.braceDepth

MemberNames(ms) == [i \in 1..Len(ms) |-> <<ms[i].type, ms[i].name>>]

\* the return type and the name of every entry of a list of MethodData
MethodNames(ms) == [i \in 1..Len(ms) |-> <<ms[i].returnType, ms[i].name>>]

\* the entries of a stand in b, in the order they have in a
RECURSIVE InOrder(_, _)
InOrder(a, b) ==
  \/ a = <<>>
  \/ /\ b # <<>>
     /\ IF Head(a) = Head(b) THEN InOrder(Tail(a), Tail(b))
        ELSE InOrder(a, Tail(b))

\* s is the tail of t
IsSuffix(s, t) ==
  /\ Len(s) <= Len(t)
  /\ SubSeq(t, Len(t) - Len(s) + 1, Len(t)) = s

\* C12: the members and the methods of a committed ClassData stand in the
\* order in which their declarations stand in the class body, and so do
\* those collected so far while the body is read: the declarations of the
\* body are the tail of the list, in their order, behind whatever the
\* ClassData held when the class was pushed; in the first call of parse they
\* are the whole list.  A ClassDriver that is not subscribed collects none
C12_MembersAndMethodsInOrder ==
  LET cls == IF classOut # <<>> THEN classOut[1].data ELSE classes.currentClass
  IN  (classOut # <<>> \/ pc \in BodyStart) =>
        IF classes.subscribed
        THEN /\ IsSuffix(g.cMembers, MemberNames(cls.members))
             /\ IsSuffix(g.cMethods, MethodNames(cls.methods))
             /\ nparse = 1 =>
                   /\ MemberNames(cls.members) = g.cMembers
                   /\ MethodNames(cls.methods) = g.cMethods
        ELSE /\ InOrder(MemberNames(cls.members), g.cMembers)
             /\ InOrder(MethodNames(cls.methods), g.cMethods)

\* a class with two different members, or with two different methods, is
\* committed
C12_Witness ==
  /\ classOut # <<>>
  /\ \/ /\ Len(classOut[1].data.members) = 2
        /\ classOut[1].data.members[1].name # classOut[1].data.members[2].name
     \/ /\ Len(classOut[1].data.methods) = 2
        /\ classOut[1].data.methods[1].name # classOut[1].data.methods[2].name

\* the names of a list with sep between every two of them
RECURSIVE Join(_, _)
Join(names, sep) ==
  IF Len(names) = 0 THEN <<>>
  ELSE IF Len(names) = 1 THEN <<names[1]>>
  ELSE <<names[1], sep>> \o Join(Tail(names), sep)

\* the fully qualified name of a record
QualifiedName(rec) ==
  IF rec.namespaces = <<>> THEN <<rec.name>>
  ELSE Join(rec.namespaces, "::") \o <<"::", rec.name>>

\* C13: the key sent on enumAvailable and on classAvailable is the namespaces
\* of the record sent with it joined with "::", then "::" and the name of the
\* record, and the name alone when the record has no namespaces
C13_KeyIsQualifiedName ==
  /\ enumOut # <<>> => enumOut[1].key = QualifiedName(enumOut[1].data)
  /\ classOut # <<>> => classOut[1].key = QualifiedName(classOut[1].data)

\* an enum declared inside two namespaces is sent on enumAvailable
C13_Witness ==
  /\ enumOut # <<>>
  /\ Len(enumOut[1].data.namespaces) = 2

\* C14: from the first lexeme of a template class to the ';' of the "};"
\* that closes it, nested braces, string literals and nested classes ending
\* in "};" included, no driver is told of anything (the records, the flags,
\* the namespace stacks and the scope depths are what they were), the parser
\* does not give up, and behind that "};" it stands at the start of the next
\* declaration
C14_TemplateClassIgnored ==
  /\ tpl.phase \in {"body", "closing", "done"} =>
        <<enums, classes, scopeDepth>> = tpl.snap
  /\ tpl.phase \in {"body", "closing"} => ~(pc = "returned" /\ g.rejected)
  /\ tpl.phase = "done" => pc \in {"top", "returned"}

\* a template class whose body holds braces and a string literal is read to
\* its end
C14_Witness ==
  /\ tpl.phase = "done"
  /\ pc = "top"

\* C15: an enum without a name is skipped and the declarations after it are
\* still parsed: at the '{' that follows the keyword enum the parse does not
\* end
C15_AnonymousEnumSkipped ==
  pc = "enum_kw" => ~ENABLED Unrecognized("{", TRUE)

\* the signal on which a parent of a given access is announced
ParentSignal(access) ==
  CASE access = "public" -> "publicClassParent"
    [] access = "protected" -> "protectedClassParent"
    [] access = "private" -> "privateClassParent"

\* C16: once a parent of an inheritance clause is read, and still when the
\* class is committed, one event was sent for every parent read so far, on
\* the signal of its access (private when no keyword gives it), the parents
\* of the ClassData are the names of those parents in their order, and no
\* access keyword is among them
C16_ParentsByAccess ==
  LET cls == IF classOut # <<>> THEN classOut[1].data ELSE classes.currentClass
  IN  (inh.phase = "name" \/ classOut # <<>>) =>
        /\ cls.parents = [i \in 1..Len(inh.decl) |-> inh.decl[i][2]]
        /\ g.parentEvents =
             [i \in 1..Len(inh.decl) |->
                <<ParentSignal(inh.decl[i][1]), inh.decl[i][2]>>]
        /\ \A i \in 1..Len(cls.parents) : cls.parents[i] \notin AccessKeywords

\* the access level a MemberData or a MethodData carries
AccessOf(md) ==
  IF md.isPublic THEN "public"
  ELSE IF md.isProtected THEN "protected" ELSE "private"

\* C17: every member and every method of the class being read, and of the
\* class committed, carries the access of the last access modifier in front
\* of it in the body, and where there is none private in a class and public
\* in a struct
C17_AccessOfMembers ==
  LET cls == IF classOut # <<>> THEN classOut[1].data ELSE classes.currentClass
  IN  (classOut # <<>> \/ pc \in BodyStart) =>
      /\ [i \in 1..Len(cls.members) |-> AccessOf(cls.members[i])] = g.mAccess
      /\ [i \in 1..Len(cls.methods) |-> AccessOf(cls.methods[i])] = g.fAccess

\* exactly one of three flags is set
ExactlyOne(a, b, c) ==
  \/ a /\ ~b /\ ~c
  \/ ~a /\ b /\ ~c
  \/ ~a /\ ~b /\ c

\* C18: from regParser on exactly one of isPublic, isPrivate and isProtected
\* of the ClassDriver is set, and no MemberData and no MethodData, collected
\* or committed, has isPublic and isProtected both set
C18_OneAccessLevel ==
  LET cls == IF classOut # <<>> THEN classOut[1].data ELSE classes.currentClass
  IN  /\ ExactlyOne(classes.isPublic, classes.isPrivate, classes.isProtected)
      /\ \A i \in 1..Len(cls.members) :
            ~(cls.members[i].isPublic /\ cls.members[i].isProtected)
      /\ \A i \in 1..Len(cls.methods) :
            ~(cls.methods[i].isPublic /\ cls.methods[i].isProtected)

\* a protected member was collected after a public one
C18_Witness ==
  /\ Len(classes.currentClass.members) = 2
  /\ classes.currentClass.members[1].isPublic
  /\ classes.currentClass.members[2].isProtected
  /\ classes.isProtected

\* C19: once unsubscribe() or clear() was called on a driver, no event of the
\* parser calls a subscriber of it (what its subscribers write stays what it
\* was) and it sends neither enumAvailable nor classAvailable
C19_UnsubscribedIsSilent ==
  /\ g.offN # <<>> => enums.namespaces = g.offN[1]
  /\ g.offE # <<>> => (enumOut = <<>> /\ enums.currentEnum = g.offE[1])
  /\ g.offC # <<>> =>
        /\ classOut = <<>>
        /\ OwnState("ClassDriver") =
             [g.offC[1] EXCEPT !.namespaces = NewNamespaceDriver]

\* some connection made by EnumDriver::regParser is connected
EnumConnected(ed) == ed.subscribed \/ ed.namespaces.subscribed

\* some connection made by ClassDriver::regParser is connected
ClassConnected(cd) ==
  cd.subscribed \/ cd.namespaces.subscribed \/ cd.classPopSub

\* C20: a driver whose lifetime has ended has no connected subscription, and
\* no signal calls a subscriber of it
C20_DestroyedIsDisconnected ==
  /\ enums.destroyed => ~EnumConnected(enums)
  /\ classes.destroyed => ~ClassConnected(classes)
  /\ pc # "crashed"

\* -------------------------------------------------------------- properties
\* of the line by line pipeline
\* the least member of a nonempty set of numbers, 0 for the empty set
Least(S) == IF S = {} THEN 0 ELSE CHOOSE x \in S : \A y \in S : x <= y

\* the entry of the log that ends what entry k begins: the return of a call,
\* the published of a publish (0 when there is none)
EndOf(k) ==
  LET l == lbl.log
      ev == IF l[k].ev = "call" THEN "return" ELSE "published"
  IN  Least({j \in (k + 1)..Len(l) :
               /\ l[j].ev = ev
               /\ l[j].node = l[k].node
               /\ l[j].chan = l[k].chan})

\* the objects subscribed to channel chan of node n
Subscribers(n, chan) ==
  {c \in 1..Len(lbl.nodes) :
     /\ lbl.nodes[c].parent = n
     /\ (chan = "emit" \/ lbl.nodes[c].kind \in Filters)}

\* node c is node n or stands downstream of it
RECURSIVE IsBelow(_, _)
IsBelow(c, n) ==
  \/ c = n
  \/ c > 1 /\ IsBelow(lbl.nodes[c].parent, n)

\* the calls that the publish of log entry i makes
CallsOf(i) ==
  LET l == lbl.log
  IN  {k \in (i + 1)..(EndOf(i) - 1) :
         /\ l[k].ev = "call"
         /\ l[k].chan = l[i].chan
         /\ lbl.nodes[l[k].node].parent = l[i].node}

\* the publish of log entry i calls every subscriber once, in the order of
\* subscription, each call returning before the next one starts, and nothing
\* else happens until the publish is over
Dispatched(i) ==
  LET l == lbl.log
      calls == CallsOf(i)
  IN  /\ EndOf(i) # 0
      /\ {l[k].node : k \in calls} = Subscribers(l[i].node, l[i].chan)
      /\ Cardinality(calls) = Cardinality(Subscribers(l[i].node, l[i].chan))
      /\ \A k \in calls :
           /\ l[k].arg = l[i].arg
           /\ EndOf(k) # 0 /\ EndOf(k) < EndOf(i)
           /\ \A j \in (k + 1)..(EndOf(k) - 1) : IsBelow(l[j].node, l[k].node)
      /\ \A k1, k2 \in calls :
           k1 < k2 => l[k1].node < l[k2].node /\ EndOf(k1) < k2
      /\ \A j \in (i + 1)..(EndOf(i) - 1) :
           \E k \in calls : k <= j /\ j <= EndOf(k)

\* C21: every event published while a line is processed is delivered to all
\* the subscribers of its channel, in the order in which they subscribed,
\* and each handler, with the events it publishes in turn, has returned
\* before the next handler is called and before the publisher goes on
C21_SynchronousInSubscriptionOrder ==
  \A i \in 1..Len(lbl.log) : lbl.log[i].ev = "publish" => Dispatched(i)

\* a classPush with two subscribers, the first of which forwards it to a
\* subscriber of its own
C21_Witness ==
  \E i \in 1..Len(lbl.log) :
    /\ lbl.log[i].ev = "publish"
    /\ lbl.log[i].chan = "classPush"
    /\ Cardinality(Subscribers(lbl.log[i].node, "classPush")) = 2
    /\ \E j \in (i + 1)..(EndOf(i) - 1) :
         /\ lbl.log[j].ev = "call"
         /\ lbl.log[j].chan = "classPush"
         /\ lbl.nodes[lbl.log[j].node].parent \in Subscribers(lbl.log[i].node, "classPush")

\* the lines that node l[k].node emits between the call of log entry k and
\* its return
Emitted(k) ==
  LET l == lbl.log
      evs == SelectSeq(SubSeq(l, k + 1, EndOf(k) - 1),
                       LAMBDA e : /\ e.ev = "publish"
                                  /\ e.node = l[k].node
                                  /\ e.chan = "emit")
  IN  [i \in 1..Len(evs) |-> evs[i].arg]

\* the lines written to std::cerr by node l[k].node between the call of log
\* entry k and its return
Diagnosed(k) ==
  LET l == lbl.log
      evs == SelectSeq(SubSeq(l, k + 1, EndOf(k) - 1),
                       LAMBDA e : e.ev = "cerr" /\ e.node = l[k].node)
  IN  [i \in 1..Len(evs) |-> evs[i].arg]

\* log entry k is the delivery of a line to a filter of this kind that is
\* the filter's sentinel once its white space is removed
SentinelCall(k, kind, sentinel) ==
  /\ lbl.log[k].ev = "call"
  /\ lbl.log[k].chan = "emit"
  /\ lbl.nodes[lbl.log[k].node].kind = kind
  /\ IsSentinel(lbl.log[k].arg, sentinel)

\* the getter lines of the members that ask for one, in member order
Getters(c) ==
  LET ms == SelectSeq(c.members, LAMBDA m : m.generateGetter)
  IN  [i \in 1..Len(ms) |->
         <<ms[i].type, " get", ms[i].name, "() const { return ", ms[i].name,
           "; }">>]

\* the setter lines of the members that ask for one, in member order
Setters(c) ==
  LET ms == SelectSeq(c.members, LAMBDA m : m.generateSetter)
  IN  [i \in 1..Len(ms) |->
         <<"void set", ms[i].name, "(const ", ms[i].type, "& val) ", "{ ",
           ms[i].name, " = val; }">>]

\* C22: a getter/setter filter that receives its sentinel (after white space
\* removal) while it has a current class emits the getter line of every
\* member with generateGetter, in member order, then the setter line of every
\* member with generateSetter, in member order, and not the sentinel line
C22_GettersThenSetters ==
  \A k \in 1..Len(lbl.log) :
    (SentinelCall(k, "LblEmitGetSetMethods", GetSetSentinel)
       /\ lbl.log[k].cur # <<>>) =>
      Emitted(k) = Getters(lbl.log[k].cur[1]) \o Setters(lbl.log[k].cur[1])

\* the sentinel, with blanks around it, reaches a filter whose current class
\* has two members with a getter and a setter each
C22_Witness ==
  \E k \in 1..Len(lbl.log) :
    /\ SentinelCall(k, "LblEmitGetSetMethods", GetSetSentinel)
    /\ lbl.log[k].arg # <<GetSetSentinel>>
    /\ lbl.log[k].cur # <<>>
    /\ Len(Emitted(k)) = 4

\* the texts of the lines of a list
Texts(lines) == [i \in 1..Len(lines) |-> Text(lines[i])]

\* LblReader, LblMiniparser, one LblEmitGetSetMethods and one LblWriter,
\* each subscribed to the one before it, with the catalog in which x and y of
\* Point have a getter and a setter each
PointPipeline ==
  /\ Len(lbl.nodes) = 3
  /\ lbl.nodes[2].kind = "LblEmitGetSetMethods" /\ lbl.nodes[2].parent = 1
  /\ lbl.nodes[3].kind = "LblWriter" /\ lbl.nodes[3].parent = 2
  /\ \A i \in 1..2 : /\ lbl.classMap[1].members[i].generateGetter
                     /\ lbl.classMap[1].members[i].generateSetter

\* C23: the pipeline with the catalog of Point (x and y of type int, a
\* getter and a setter each), fed the lines `class Point {`,
\* `[[genGetSetMethods]]`, `};`, writes `class Point {`, the getter of x, the
\* setter of x, the getter of y, the setter of y, `};`, in this order
C23_PointExample ==
  (PointPipeline
     /\ Texts(lbl.input) = <<"class Point {", "[[genGetSetMethods]]", "};">>) =>
    Texts(lbl.nodes[3].stream) =
      << "class Point {",
         "int getx() const { return x; }",
         "void setx(const int& val) { x = val; }",
         "int gety() const { return y; }",
         "void sety(const int& val) { y = val; }",
         "};" >>

\* log entry k is the delivery of its own sentinel to a filter
OwnSentinelCall(k) ==
  \/ SentinelCall(k, "LblEmitGetSetMethods", GetSetSentinel)
  \/ SentinelCall(k, "LblEmitCerealMethods", CerealSentinel)

\* C24: a filter that receives its sentinel while it has no current class
\* emits the sentinel line as it is, nothing else, and writes one line to
\* the diagnostic channel
C24_SentinelWithoutClassForwarded ==
  \A k \in 1..Len(lbl.log) :
    (OwnSentinelCall(k) /\ lbl.log[k].cur = <<>>) =>
      /\ Emitted(k) = <<lbl.log[k].arg>>
      /\ Len(Diagnosed(k)) = 1

\* C25: when handleClassPush of a filter returns for a class that its
\* catalog does not hold, the filter has no current class
C25_UnknownClassEmptiesCurrent ==
  \A k \in 1..Len(lbl.log) :
    (/\ lbl.log[k].ev = "return"
     /\ lbl.log[k].chan = "classPush"
     /\ ~contains(lbl.nodes[lbl.log[k].node]._classes, lbl.log[k].arg[1]))
      => lbl.log[k].cur = <<>>

\* the filters between the LblMiniparser and node n, n included
RECURSIVE ChainOf(_)
ChainOf(n) ==
  IF n <= 1 THEN {}
  ELSE (IF lbl.nodes[n].kind \in Filters THEN {n} ELSE {}) \cup
         ChainOf(lbl.nodes[n].parent)

\* the line is the sentinel of a filter upstream of node w
SentinelOnChain(line, w) ==
  \E f \in ChainOf(w) :
    \/ lbl.nodes[f].kind = "LblEmitGetSetMethods" /\ IsSentinel(line, GetSetSentinel)
    \/ lbl.nodes[f].kind = "LblEmitCerealMethods" /\ IsSentinel(line, CerealSentinel)

\* what stands of a list of written lines behind its leading lines that are
\* no lines of the input
RECURSIVE BehindGenerated(_)
BehindGenerated(written) ==
  IF written # <<>> /\ Head(written) \notin InputLines
  THEN BehindGenerated(Tail(written)) ELSE written

\* the written lines are the lines of the input, each sentinel of the chain
\* replaced by lines that are no lines of the input (or by none), each other
\* line once, as it was, in its place
RECURSIVE Rewritten(_, _, _)
Rewritten(written, input, w) ==
  IF input = <<>> THEN written = <<>>
  ELSE IF SentinelOnChain(Head(input), w)
  THEN Rewritten(BehindGenerated(written), Tail(input), w)
  ELSE /\ written # <<>>
       /\ Head(written) = Head(input)
       /\ Rewritten(Tail(written), Tail(input), w)

\* C26: whatever lines are read and whatever chain of filters stands between
\* the mini-parser and a writer, every line that is no sentinel of a filter
\* of the chain reaches the writer once, as it was and in its order among the
\* others, and generated lines stand where the sentinel they replace stood
C26_OtherLinesPassThrough ==
  \A w \in 1..Len(lbl.nodes) :
    lbl.nodes[w].kind = "LblWriter" =>
      Rewritten(lbl.nodes[w].stream, lbl.input, w)

\* a writer behind two filters has written a generated line between two lines
\* of the input
C26_Witness ==
  \E w \in 1..Len(lbl.nodes) :
    /\ lbl.nodes[w].kind = "LblWriter"
    /\ Cardinality(ChainOf(w)) = 2
    /\ Len(lbl.input) = 3
    /\ LET s == lbl.nodes[w].stream
       IN  /\ Len(s) > 3
           /\ s[1] = lbl.input[1]
           /\ s[2] \notin InputLines
           /\ s[Len(s)] = lbl.input[3]

\* the calls of the slots of filter f for class events, and the events the
\* mini-parser published, in the order of the log
ClassEventsAt(f) ==
  LET evs == SelectSeq(lbl.log,
               LAMBDA e : /\ e.ev = "call" /\ e.node = f
                          /\ e.chan \in {"classPush", "classPop"})
  IN  [i \in 1..Len(evs) |-> <<evs[i].chan, evs[i].arg>>]

ClassEventsRaised ==
  LET evs == SelectSeq(lbl.log,
               LAMBDA e : /\ e.ev = "publish" /\ e.node = 1
                          /\ e.chan \in {"classPush", "classPop"})
  IN  [i \in 1..Len(evs) |-> <<evs[i].chan, evs[i].arg>>]

\* C27: while a line is processed, every filter receives the class-push or
\* class-pop that the mini-parser raised for the line, before the line (or
\* what an upstream filter made of it) is delivered to it, and forwards the
\* event to its own subscribers: all filters receive the same class events
C27_ClassEventsBeforeLine ==
  \A f \in 1..Len(lbl.nodes) :
    lbl.nodes[f].kind \in Filters =>
      /\ lbl.log # <<>> => ClassEventsAt(f) = ClassEventsRaised
      /\ \A i, j \in 1..Len(lbl.log) :
           (/\ lbl.log[i].node = f /\ lbl.log[j].node = f
            /\ lbl.log[i].ev = "call" /\ lbl.log[j].ev = "call"
            /\ lbl.log[i].chan = "emit" /\ lbl.log[j].chan # "emit") => j < i
      /\ \A i \in 1..Len(lbl.log) :
           (/\ lbl.log[i].node = f /\ lbl.log[i].ev = "call"
            /\ lbl.log[i].chan # "emit") =>
             \E j \in (i + 1)..(EndOf(i) - 1) :
               /\ lbl.log[j].ev = "publish"
               /\ lbl.log[j].node = f
               /\ lbl.log[j].chan = lbl.log[i].chan
               /\ lbl.log[j].arg = lbl.log[i].arg

\* a class-push reached two filters, one behind the other, and the line
\* reached both after it
C27_Witness ==
  \E f1, f2 \in 1..Len(lbl.nodes) :
    /\ lbl.nodes[f1].kind \in Filters /\ lbl.nodes[f2].kind \in Filters
    /\ lbl.nodes[f2].parent = f1
    /\ ClassEventsRaised # <<>>
    /\ ClassEventsRaised[1][1] = "classPush"
    /\ \E i \in 1..Len(lbl.log) :
         /\ lbl.log[i].ev = "call" /\ lbl.log[i].node = f2
         /\ lbl.log[i].chan = "emit"

\* the names IDENT for which the line holds `class IDENT` or `struct IDENT`
ClassNamesIn(line) ==
  {line[j] : j \in {j \in 2..Len(line) :
     /\ IsIdentifier(line[j])
     /\ \E i \in 1..(j - 1) :
          /\ line[i] \in {"class", "struct"}
          /\ \A b \in (i + 1)..(j - 1) : line[b] = " "}}

\* C28: for the line just processed, the mini-parser published class-push of
\* IDENT when the line holds `class IDENT` or `struct IDENT` somewhere, and
\* class-pop when the line holds `};` somewhere, whatever stands in front of it
C28_RecognizedAnywhere ==
  lbl.log # <<>> =>
    LET line == lbl.input[Len(lbl.input)]
    IN  /\ \A name \in ClassNamesIn(line) :
             \E i \in 1..Len(ClassEventsRaised) :
               ClassEventsRaised[i] = <<"classPush", <<name>>>>
        /\ (\E i \in 1..Len(line) : line[i] = "};") =>
             \E i \in 1..Len(ClassEventsRaised) :
               ClassEventsRaised[i][1] = "classPop"

\* the save lines, then the load lines, of the members of a list
CerealLines(ms) ==
  << <<"template <typename Archive>">>, <<"void save(Archive& ar) const {">> >>
  \o [i \in 1..Len(ms) |->
        <<"ar(cereal::make_nvp(\"", ms[i].name, "\",", ms[i].name, "));">>]
  \o << <<"}">>, <<"template <typename Archive>">>,
        <<"void load(Archive& ar) {">> >>
  \o [i \in 1..Len(ms) |-> <<"ar(", ms[i].name, ");">>]
  \o << <<"}">> >>

\* C29: a serialization filter that receives its sentinel while it has a
\* current class emits the save function and then the load function, each
\* with one line for every member that has the serializable flag or whose
\* class has it, and for no other member, in member order
C29_SaveThenLoad ==
  \A k \in 1..Len(lbl.log) :
    (SentinelCall(k, "LblEmitCerealMethods", CerealSentinel)
       /\ lbl.log[k].cur # <<>>) =>
      LET c == lbl.log[k].cur[1]
      IN  Emitted(k) =
            CerealLines(SelectSeq(c.members,
              LAMBDA m : m.serializable \/ c.serializable))

\* the sentinel reaches a filter whose current class is marked serializable
\* and has two members without the mark
C29_Witness ==
  \E k \in 1..Len(lbl.log) :
    /\ SentinelCall(k, "LblEmitCerealMethods", CerealSentinel)
    /\ lbl.log[k].cur # <<>>
    /\ lbl.log[k].cur[1].serializable
    /\ \A i \in 1..2 : ~lbl.log[k].cur[1].members[i].serializable
    /\ Len(Emitted(k)) = 10

\* -------------------------------------------------------------- properties
\* of generateSource
\* what a generated function yields for the value that a case label names:
\* the text of the first case with that label, the default when there is none
Yields(f, label) ==
  LET hits == {c \in 1..Len(f.cases) : f.cases[c].label = label}
  IN  IF hits = {} THEN f.default ELSE f.cases[Least(hits)].text

\* the generated function of this kind for the enum of this key
Generated(fn, key) ==
  gen.source[CHOOSE k \in 1..Len(gen.source) :
               gen.source[k].fn = fn /\ gen.source[k].type = key]

\* the text the specification gives for an identifier of an enum
StringForm(it, id) ==
  IF it.second.isClassEnum THEN it.first \o <<"::", id>>
  ELSE IF it.second.namespaces = <<>> THEN <<id>>
  ELSE Join(it.second.namespaces, "::") \o <<"::", id>>

\* C30: for every enum of the catalog and every identifier of it, the text
\* that the generated to_string returns and the text that the generated
\* operator<< writes are the same, the key of the enum followed by
\* ::identifier for a scoped enum and Namespace::identifier (the identifier
\* alone at global scope) for an unscoped one; a value that no case names
\* yields UNKNOWN VALUE
C30_StringForms ==
  gen.phase = "done" =>
    \A k \in 1..Len(gen.enums) :
      LET it == gen.enums[k]
          ts == Generated("to_string", it.first)
          os == Generated("operator<<", it.first)
      IN  /\ \A i \in 1..Len(it.second.identifiers) :
               LET id == it.second.identifiers[i]
               IN  /\ Yields(ts, CaseLabel(it, id)) = Yields(os, CaseLabel(it, id))
                   /\ Yields(ts, CaseLabel(it, id)) = StringForm(it, id)
          /\ Yields(ts, <<"other">>) = <<"UNKNOWN VALUE">>
          /\ Yields(os, <<"other">>) = <<"UNKNOWN VALUE">>

\* -------------------------------------------------------------- properties
\* C34: every enumIdentifier event has as its first argument the name of the
\* enum in whose body the identifier stands, be the enum scoped or not
C34_IdentifierCarriesEnumName ==
  \A i \in 1..Len(g.eArgs) : g.eArgs[i] = g.eName

\* the parents named in the inheritance clause of the class being read
DeclaredParents == [i \in 1..Len(g.parentEvents) |-> g.parentEvents[i][2]]

\* C31: a declaration that a call of parse left unfinished is never sent on
\* enumAvailable or classAvailable, in that call or in a later one on the same
\* parser and drivers, and what a later call commits holds the name, the
\* identifiers, members, methods, parents and namespaces of the declaration
\* it read, none of the unfinished one
C31_NothingOfTheUnfinished ==
  /\ (pc = "returned" /\ leftover) => (enumOut = <<>> /\ classOut = <<>>)
  /\ (nparse > 1 /\ classOut # <<>>) =>
        /\ classOut[1].data.name = g.cName
        /\ MemberNames(classOut[1].data.members) = g.cMembers
        /\ MethodNames(classOut[1].data.methods) = g.cMethods
        /\ classOut[1].data.parents = DeclaredParents
        /\ classOut[1].data.namespaces = g.cDeclNs
  /\ (nparse > 1 /\ enumOut # <<>>) =>
        /\ enumOut[1].data.name = g.eName
        /\ enumOut[1].data.identifiers = g.eIdents
        /\ enumOut[1].data.namespaces = g.eDeclNs

\* ============================================================== the two
\* spellings of nested namespaces: namespace a::b { BODY } and
\* namespace a { namespace b { BODY } }, each read by its own ParserDriver
\* with its own EnumDriver and ClassDriver, BODY being the same enums and
\* classes
\*
\* declarations in BODY
MaxDecls == 3

\* one run of parse with its drivers: the local scopeDepth, the names sent on
\* namespacePush and what enumAvailable and classAvailable sent
NewRun == [enums |-> NewEnumDriver, classes |-> NewClassDriver, scopeDepth |-> 0,
           pushed |-> <<>>, catalog |-> <<>>]

\* handleNamespaceIdentifier, with the namespacePush subscribers of both
\* NamespaceDrivers
namespaceIdentifier_run(run, name) ==
  [run EXCEPT
     !.enums.namespaces = nsNamespacePush(@, name, run.scopeDepth),
     !.classes.namespaces = nsNamespacePush(@, name, run.scopeDepth),
     !.pushed = Append(@, name)]

\* handleScopePush, with the incScope subscribers
scopePush_run(run) ==
  [run EXCEPT !.enums.namespaces = nsIncScope(@),
              !.classes.namespaces = nsIncScope(@),
              !.scopeDepth = @ + 1]

\* handleScopePop, with the decScope subscribers in the order regParser
\* connected them
scopePop_run(run) ==
  LET e1 == [run.enums EXCEPT !.namespaces = nsDecScope(@)]
  IN  [run EXCEPT !.enums = enumScopePop(e1),
                  !.classes.namespaces = nsDecScope(@),
                  !.scopeDepth = @ - 1,
                  !.catalog = @ \o enumAvailable(e1)]

\* namespaceGrammar on: namespace names[1]::names[2]... {
RECURSIVE namespaceIdentifiers_run(_, _)
namespaceIdentifiers_run(run, names) ==
  IF names = <<>> THEN run
  ELSE namespaceIdentifiers_run(namespaceIdentifier_run(run, Head(names)),
                                Tail(names))

namespaceGrammar_run(run, names) ==
  scopePush_run(namespaceIdentifiers_run(run, names))

\* namespaceGrammar once per name: namespace names[1] { namespace names[2] { ...
RECURSIVE nestedNamespaces_run(_, _)
nestedNamespaces_run(run, names) ==
  IF names = <<>> THEN run
  ELSE nestedNamespaces_run(namespaceGrammar_run(run, <<Head(names)>>),
                            Tail(names))

\* enumGrammar on: enum name { identifier };
enumGrammar_run(run, name, identifier) ==
  LET pushed == [run EXCEPT !.enums = handleStandardEnum(@, name)]
      inside == scopePush_run(pushed)
      named  == [inside EXCEPT
                   !.enums = EnumDriver_handleEnumIdentifier(@, identifier)]
  IN  scopePop_run(named)

\* classGrammar on: class name { };
classGrammar_run(run, name) ==
  LET pushed == [run EXCEPT !.classes = handleClass(@, name)]
  IN  [pushed EXCEPT !.classes = ClassDriver_handleClassPop(@),
                     !.catalog = @ \o classAvailable(pushed.classes)]

\* the namespaces that are spelled both ways
NamespacePaths == {<<"a", "b">>, <<"b", "a">>, <<"a", "a">>, <<"a", "b", "a">>}

\* both headers are read
OpenNamespaces(names) ==
  /\ cmp.phase = "start"
  /\ cmp' = [phase |-> "body", decls |-> 0,
             compound |-> namespaceGrammar_run(NewRun, names),
             nested |-> nestedNamespaces_run(NewRun, names)]
  /\ UNCHANGED <<parserVars, lbl, gen, chr, sig, mem>>

\* the next declaration of BODY is an enum
DeclareEnum(name, identifier) ==
  /\ cmp.phase = "body"
  /\ cmp.decls < MaxDecls
  /\ cmp' = [cmp EXCEPT !.decls = @ + 1,
                        !.compound = enumGrammar_run(@, name, identifier),
                        !.nested = enumGrammar_run(@, name, identifier)]
  /\ UNCHANGED <<parserVars, lbl, gen, chr, sig, mem>>

\* the next declaration of BODY is a class
DeclareClass(name) ==
  /\ cmp.phase = "body"
  /\ cmp.decls < MaxDecls
  /\ cmp' = [cmp EXCEPT !.decls = @ + 1,
                        !.compound = classGrammar_run(@, name),
                        !.nested = classGrammar_run(@, name)]
  /\ UNCHANGED <<parserVars, lbl, gen, chr, sig, mem>>

\* the closing braces, read by the scopePop of programGrammar, which has no
\* action: one brace in the first spelling, one per namespace in the second
CloseNamespaces ==
  /\ cmp.phase = "body"
  /\ cmp' = [cmp EXCEPT !.phase = "closed"]
  /\ UNCHANGED <<parserVars, lbl, gen, chr, sig, mem>>

NsInit ==
  /\ NoParser
  /\ lbl = NoPipeline
  /\ gen = NoGenerator
  /\ cmp = [phase |-> "start"]
  /\ chr = NoRule
  /\ sig = NoSignals
  /\ mem = NoBody

NsNext ==
  \/ \E names \in NamespacePaths : OpenNamespaces(names)
  \/ \E name \in Ids, identifier \in Ids : DeclareEnum(name, identifier)
  \/ \E name \in Ids : DeclareClass(name)
  \/ CloseNamespaces

NsSpec == NsInit /\ [][NsNext]_vars

\* -------------------------------------------------------------- properties
\* the key and the namespaces of every entry of a catalog
KeysAndNamespaces(catalog) ==
  [i \in 1..Len(catalog) |->
     [key |-> catalog[i].key, namespaces |-> catalog[i].data.namespaces]]

\* C32: namespace a::b { BODY } and namespace a { namespace b { BODY } } send
\* the same names on namespacePush and commit every declaration of BODY with
\* the same key and the same namespaces, also when BODY holds several enums
C32_CompoundEqualsNested ==
  cmp.phase \in {"body", "closed"} =>
    /\ cmp.compound.pushed = cmp.nested.pushed
    /\ KeysAndNamespaces(cmp.compound.catalog)
         = KeysAndNamespaces(cmp.nested.catalog)

\* ============================================================== single
\* rules of parser.h, applied to a text by the character.  A position is the
\* index of the next character; a rule yields the position behind what it
\* consumed, or NoMatch.  Inside x3::lexeme nothing is skipped.
\*
\* characters of a text
MaxChars == 6

\* what a parser that fails yields
NoMatch == 0

\* x3::char_("<>") and x3::char_("{}")
Angles == {"<", ">"}
Braces == {"{", "}"}

\* the texts given to templateGuts and to ignoreScopes: T and x stand for any
\* other character; the texts given to the literal that closes a class are
\* made of its two characters, of a blank and of the characters of a block
\* comment
RuleAlphabet(rule) ==
  CASE rule = "templateGuts" -> Angles \cup {"T"}
    [] rule = "ignoreScopes" -> Braces \cup {"x"}
    [] rule = "classPop" -> {"}", ";", " ", "/", "*"}

At(text, i) == IF i \in 1..Len(text) THEN text[i] ELSE ""

RECURSIVE templateGuts(_, _), templateGutsStar(_, _), notAngleStar(_, _)
\* *(x3::char_ - x3::char_("<>"))
notAngleStar(text, i) ==
  IF At(text, i) # "" /\ At(text, i) \notin Angles
  THEN notAngleStar(text, i + 1) ELSE i

\* *templateGuts
templateGutsStar(text, i) ==
  LET next == templateGuts(text, i)
  IN  IF next = NoMatch THEN i ELSE templateGutsStar(text, next)

\* templateGuts_def: >> binds tighter than |, so the rule is
\* ('<' >> *(char_ - char_("<>")) >> *templateGuts) | '>'
templateGuts(text, i) ==
  IF At(text, i) = "<" THEN templateGutsStar(text, notAngleStar(text, i + 1))
  ELSE IF At(text, i) = ">" THEN i + 1
  ELSE NoMatch

RECURSIVE ignoreScopes(_, _), ignoreScopesStar(_, _), scopeBody(_, _)
\* *ignoreScopes
ignoreScopesStar(text, i) ==
  LET next == ignoreScopes(text, i)
  IN  IF next = NoMatch THEN i ELSE ignoreScopesStar(text, next)

\* *((x3::char_ - x3::char_("{}")) >> *ignoreScopes)
scopeBody(text, i) ==
  IF At(text, i) # "" /\ At(text, i) \notin Braces
  THEN scopeBody(text, ignoreScopesStar(text, i + 1)) ELSE i

\* ignoreScopes_def
ignoreScopes(text, i) ==
  IF At(text, i) # "{" THEN NoMatch
  ELSE LET close == scopeBody(text, i + 1)
       IN  IF At(text, close) = "}" THEN close + 1 ELSE NoMatch

\* the rule is applied at the first character of the text
templateGuts_parse ==
  /\ chr.phase = "text" /\ chr.rule = "templateGuts"
  /\ chr' = [chr EXCEPT !.phase = "parsed", !.next = templateGuts(chr.text, 1)]
  /\ UNCHANGED <<parserVars, lbl, gen, cmp, sig, mem>>

ignoreScopes_parse ==
  /\ chr.phase = "text" /\ chr.rule = "ignoreScopes"
  /\ chr' = [chr EXCEPT !.phase = "parsed", !.next = ignoreScopes(chr.text, 1)]
  /\ UNCHANGED <<parserVars, lbl, gen, cmp, sig, mem>>

RECURSIVE commentEnd(_, _)
\* *(x3::char_ - "*/") >> "*/"
commentEnd(text, i) ==
  IF At(text, i) = "" THEN NoMatch
  ELSE IF At(text, i) = "*" /\ At(text, i + 1) = "/" THEN i + 2
  ELSE commentEnd(text, i + 1)

\* blockComment_def
blockComment(text, i) ==
  IF At(text, i) = "/" /\ At(text, i + 1) = "*" THEN commentEnd(text, i + 2)
  ELSE NoMatch

RECURSIVE ignoreStuff(_, _)
\* the skipper of phrase_parse, applied until it fails:
\* blockComment | singleLineComment | x3::ascii::space
ignoreStuff(text, i) ==
  IF blockComment(text, i) # NoMatch
  THEN ignoreStuff(text, blockComment(text, i))
  ELSE IF At(text, i) = " " THEN ignoreStuff(text, i + 1)
  ELSE i

\* x3::lit("};") of classGrammar: what the skipper takes is skipped before
\* the literal, whose characters are then matched one after the other
classPopLiteral(text, i) ==
  LET start == ignoreStuff(text, i)
  IN  IF At(text, start) = "}" /\ At(text, start + 1) = ";"
      THEN start + 2 ELSE NoMatch

\* x3::lit("};") [handleClassPop]
classPop_parse ==
  /\ chr.phase = "text" /\ chr.rule = "classPop"
  /\ chr' = [chr EXCEPT !.phase = "parsed", !.next = classPopLiteral(chr.text, 1)]
  /\ UNCHANGED <<parserVars, lbl, gen, cmp, sig, mem>>

RuleInit ==
  /\ NoParser
  /\ lbl = NoPipeline
  /\ gen = NoGenerator
  /\ cmp = NoComparison
  /\ sig = NoSignals
  /\ mem = NoBody
  /\ \E rule \in {"templateGuts", "ignoreScopes", "classPop"},
        n \in 0..MaxChars :
       \E text \in [1..n -> RuleAlphabet(rule)] :
         chr = [phase |-> "text", rule |-> rule, text |-> text, next |-> NoMatch]

RuleNext == templateGuts_parse \/ ignoreScopes_parse \/ classPop_parse

RuleSpec == RuleInit /\ [][RuleNext]_vars

\* -------------------------------------------------------------- properties
\* how many of the first i characters of text are open, minus how many are
\* close
RECURSIVE Depth(_, _, _, _)
Depth(text, i, open, close) ==
  IF i = 0 THEN 0
  ELSE Depth(text, i - 1, open, close)
         + (IF text[i] = open THEN 1 ELSE IF text[i] = close THEN -1 ELSE 0)

\* the position of the close that matches the open at the first character
\* of text, 0 if there is none
Matching(text, open, close) ==
  LET ends == {i \in 1..Len(text) : Depth(text, i, open, close) = 0}
  IN  IF At(text, 1) # open \/ ends = {} THEN 0
      ELSE CHOOSE i \in ends : \A j \in ends : i <= j

\* C36: templateGuts, applied at the '<' that follows the template keyword,
\* consumes the group from that '<' to the '>' that matches it, however the
\* angle brackets inside are nested, and nothing of what follows the group
C36_TemplateGutsBalanced ==
  LET close == Matching(chr.text, "<", ">")
  IN  (chr.phase = "parsed" /\ chr.rule = "templateGuts" /\ close # 0
         /\ At(chr.text, close + 1) \notin Angles) =>
        chr.next = close + 1

\* C37: ignoreScopes, applied to a text that starts with '{' and holds the
\* '}' that matches it, consumes the text up to and including that '}', also
\* when a '{' stands right behind another '{'
C37_IgnoreScopesBalanced ==
  LET close == Matching(chr.text, "{", "}")
  IN  (chr.phase = "parsed" /\ chr.rule = "ignoreScopes" /\ close # 0) =>
        chr.next = close + 1

RECURSIVE WithoutComments(_, _)
\* the text from its i-th character on with every block comment taken out
WithoutComments(text, i) ==
  IF At(text, i) = "" THEN <<>>
  ELSE IF blockComment(text, i) # NoMatch
  THEN WithoutComments(text, blockComment(text, i))
  ELSE <<text[i]>> \o WithoutComments(text, i + 1)

\* C38: the literal that closes a class, on which classPop is sent and the
\* class enters the catalog, matches a text if and only if it matches the
\* text with the block comments taken out
C38_CommentsChangeNothing ==
  (chr.phase = "parsed" /\ chr.rule = "classPop") =>
    (chr.next # NoMatch <=> classPopLiteral(WithoutComments(chr.text, 1), 1) # NoMatch)

\* ============================================================== the
\* connections of boost::signals2: the slots of the signals of one
\* ParserDriver and of one LblEmitter, in the order they were connected, and
\* the vector of connections each subscriber keeps.  A signal calls its
\* connected slots in that order; disconnect() of a connection that is
\* disconnected already does nothing.
\*
\* calls of regParser, subscribeTo and unsubscribe before the parse
MaxCalls == 4

\* the objects that keep a vector of connections
ConnectionOwners == {"EnumDriver", "EnumDriver.namespaces", "ClassDriver",
                "ClassDriver.namespaces", "LblSubscriber",
                "LblMiniParserFilter"}

\* the connections NamespaceDriver::regParser makes, all of which it keeps
NamespaceSignals == <<"incScope", "decScope", "namespacePush">>

\* the connections EnumDriver::regParser makes, all of which it keeps
EnumSignals == <<"enumPush", "enumClassPush", "enumIdentifier", "decScope">>

\* the connections ClassDriver::regParser makes
ClassSignals ==
  <<"classPush", "classPop", "structPush", "privateClassParent",
    "protectedClassParent", "publicClassParent", "privateInClass",
    "protectedInClass", "publicInClass", "memberFound", "methodFound",
    "annotationFound">>

\* those of them it puts into subscriptions
ClassSubscriptions == SelectSeq(ClassSignals, LAMBDA s : s # "classPop")

\* the connections of LblSubscriber::subscribeTo and of
\* LblMiniParserFilter::subscribeTo
LblSignals(kind) ==
  IF kind = "LblSubscriber" THEN <<"emit">>
  ELSE <<"emit", "lbl.classPush", "lbl.classPop">>

NewSignals ==
  [phase |-> "setup", slots |-> <<>>,
   subscriptions |-> [o \in ConnectionOwners |-> <<>>],
   enums |-> NewEnumDriver, classes |-> NewClassDriver,
   catalog |-> <<>>, calls |-> 0, pos |-> 0,
   regs |-> [d \in {"EnumDriver", "ClassDriver"} |-> 0],
   unsubscribed |-> FALSE, last |-> <<>>, before |-> <<>>]

\* signal.connect(slot) for every signal of signals, in their order, and
\* subscriptions.push_back for those of kept
RECURSIVE connect(_, _, _, _)
connect(st, owner, signals, kept) ==
  IF signals = <<>> THEN st
  ELSE LET s == Head(signals)
           slot == [signal |-> s, owner |-> owner, connected |-> TRUE]
           st1 == [st EXCEPT !.slots = Append(@, slot)]
           st2 == IF \E k \in 1..Len(kept) : kept[k] = s
                  THEN [st1 EXCEPT !.subscriptions[owner] =
                                      Append(@, Len(st1.slots))]
                  ELSE st1
       IN  connect(st2, owner, Tail(signals), kept)

\* the loop of unsubscribe: subscription.disconnect() for every connection of
\* the vector
disconnectAll(st, owner) ==
  LET mine == {st.subscriptions[owner][k] :
                 k \in 1..Len(st.subscriptions[owner])}
  IN  [st EXCEPT !.slots = [i \in 1..Len(st.slots) |->
                   IF i \in mine THEN [st.slots[i] EXCEPT !.connected = FALSE]
                   ELSE st.slots[i]]]

\* an unsubscribe without its subscriptions.clear()
unsubscribe_keepList(st, owner) == disconnectAll(st, owner)

\* NamespaceDriver::unsubscribe, EnumDriver::unsubscribe,
\* ClassDriver::unsubscribe and LblSubscriber::unsubscribe, which are the
\* same text
unsubscribe_all(st, owner) ==
  [disconnectAll(st, owner) EXCEPT !.subscriptions[owner] = <<>>]

\* NamespaceDriver::regParser of the namespaces member of driver d
NamespaceDriver_regParser(st, d) ==
  LET ns  == IF d = "EnumDriver" THEN "EnumDriver.namespaces"
             ELSE "ClassDriver.namespaces"
      off == unsubscribe_all(st, ns)
      st1 == IF d = "EnumDriver"
             THEN [off EXCEPT !.enums.namespaces = NewNamespaceDriver]
             ELSE [off EXCEPT !.classes.namespaces = NewNamespaceDriver]
  IN  connect(st1, ns, NamespaceSignals, NamespaceSignals)

\* EnumDriver::regParser, which does not call unsubscribe
EnumDriver_regParser(st) ==
  LET st1 == [st EXCEPT !.enums.currentEnum = EnumDataClear(@)]
      st2 == NamespaceDriver_regParser(st1, "EnumDriver")
  IN  connect(st2, "EnumDriver", EnumSignals, EnumSignals)

\* ClassDriver::regParser, which calls clear() first
ClassDriver_regParser(st) ==
  LET st1 == unsubscribe_all(unsubscribe_all(st, "ClassDriver"),
                             "ClassDriver.namespaces")
      st2 == [st1 EXCEPT !.classes = NewClassDriver]
      st3 == NamespaceDriver_regParser(st2, "ClassDriver")
  IN  connect(st3, "ClassDriver", ClassSignals, ClassSubscriptions)

\* what was called last, and the connections before it
Called(st, op, owner, old) ==
  [st EXCEPT !.calls = @ + 1, !.last = <<op, owner>>,
             !.before = <<old.last, old.slots, old.subscriptions>>]

regParser_call(d) ==
  /\ sig.phase = "setup" /\ sig.calls < MaxCalls
  /\ sig' = [Called(IF d = "EnumDriver" THEN EnumDriver_regParser(sig)
                    ELSE ClassDriver_regParser(sig), "regParser", d, sig)
               EXCEPT !.regs[d] = @ + 1]
  /\ UNCHANGED <<parserVars, lbl, gen, cmp, chr, mem>>

subscribeTo_call(kind) ==
  /\ sig.phase = "setup" /\ sig.calls < MaxCalls
  /\ sig' = Called(connect(sig, kind, LblSignals(kind), LblSignals(kind)),
                   "subscribeTo", kind, sig)
  /\ UNCHANGED <<parserVars, lbl, gen, cmp, chr, mem>>

unsubscribe_call(owner) ==
  /\ sig.phase = "setup" /\ sig.calls < MaxCalls
  /\ sig' = [Called(unsubscribe_all(sig, owner), "unsubscribe", owner, sig)
               EXCEPT !.unsubscribed = TRUE]
  /\ UNCHANGED <<parserVars, lbl, gen, cmp, chr, mem>>

\* the events ParserDriver::parse sends on
\* namespace n { class a { }; enum a { b }; }
ParsedEvents ==
  <<[signal |-> "namespacePush", name |-> "n", depth |-> 0],
    [signal |-> "incScope"],
    [signal |-> "classPush", name |-> "a", depth |-> 1],
    [signal |-> "classPop"],
    [signal |-> "enumPush", name |-> "a", depth |-> 1],
    [signal |-> "incScope"],
    [signal |-> "enumIdentifier", name |-> "a", identifier |-> "b"],
    [signal |-> "decScope"]>>

\* the slot a regParser connected: the lambda and the handler it calls
slot_call(st, owner, ev) ==
  CASE owner = "EnumDriver.namespaces" /\ ev.signal = "incScope" ->
         [st EXCEPT !.enums.namespaces = nsIncScope(@)]
    [] owner = "EnumDriver.namespaces" /\ ev.signal = "decScope" ->
         [st EXCEPT !.enums.namespaces = nsDecScope(@)]
    [] owner = "EnumDriver.namespaces" /\ ev.signal = "namespacePush" ->
         [st EXCEPT !.enums.namespaces = nsNamespacePush(@, ev.name, ev.depth)]
    [] owner = "ClassDriver.namespaces" /\ ev.signal = "incScope" ->
         [st EXCEPT !.classes.namespaces = nsIncScope(@)]
    [] owner = "ClassDriver.namespaces" /\ ev.signal = "decScope" ->
         [st EXCEPT !.classes.namespaces = nsDecScope(@)]
    [] owner = "ClassDriver.namespaces" /\ ev.signal = "namespacePush" ->
         [st EXCEPT !.classes.namespaces = nsNamespacePush(@, ev.name, ev.depth)]
    [] owner = "EnumDriver" /\ ev.signal = "enumPush" ->
         [st EXCEPT !.enums = handleStandardEnum(@, ev.name)]
    [] owner = "EnumDriver" /\ ev.signal = "enumIdentifier" ->
         [st EXCEPT !.enums = EnumDriver_handleEnumIdentifier(@, ev.identifier)]
    [] owner = "EnumDriver" /\ ev.signal = "decScope" ->
         [st EXCEPT !.enums = enumScopePop(@),
                    !.catalog = @ \o enumAvailable(st.enums)]
    [] owner = "ClassDriver" /\ ev.signal = "classPush" ->
         [st EXCEPT !.classes = handleClass(@, ev.name)]
    [] owner = "ClassDriver" /\ ev.signal = "classPop" ->
         [st EXCEPT !.classes = ClassDriver_handleClassPop(@),
                    !.catalog = @ \o classAvailable(st.classes)]
    [] OTHER -> st

\* signal(args): the connected slots from the i-th on, in connect order
RECURSIVE signal_call(_, _, _)
signal_call(st, i, ev) ==
  IF i > Len(st.slots) THEN st
  ELSE signal_call(IF st.slots[i].connected /\ st.slots[i].signal = ev.signal
                   THEN slot_call(st, st.slots[i].owner, ev) ELSE st,
                   i + 1, ev)

\* the next event of the parse
parse_event ==
  /\ sig.phase \in {"setup", "parse"}
  /\ sig.pos < Len(ParsedEvents)
  /\ sig' = [signal_call(sig, 1, ParsedEvents[sig.pos + 1])
               EXCEPT !.phase = "parse", !.pos = @ + 1, !.last = <<>>,
                      !.before = <<>>]
  /\ UNCHANGED <<parserVars, lbl, gen, cmp, chr, mem>>

SigInit ==
  /\ NoParser
  /\ lbl = NoPipeline
  /\ gen = NoGenerator
  /\ cmp = NoComparison
  /\ chr = NoRule
  /\ mem = NoBody
  /\ sig = NewSignals

SigNext ==
  \/ \E d \in {"EnumDriver", "ClassDriver"} : regParser_call(d)
  \/ \E kind \in {"LblSubscriber", "LblMiniParserFilter"} : subscribeTo_call(kind)
  \/ \E owner \in ConnectionOwners : unsubscribe_call(owner)
  \/ parse_event

SigSpec == SigInit /\ [][SigNext]_vars

\* -------------------------------------------------------------- properties
\* the connected slots of a signal that belong to owner
Live(st, owner, signal) ==
  {i \in 1..Len(st.slots) :
     /\ st.slots[i].connected
     /\ st.slots[i].owner = owner
     /\ st.slots[i].signal = signal}

\* every connected slot
AllLive(slots) == {i \in 1..Len(slots) : slots[i].connected}

\* C39: a call of unsubscribe() that follows a call of unsubscribe() on the
\* same object changes nothing: the vector of connections is empty as it was
\* and the connected slots of every signal are those left by the first call
C39_UnsubscribeTwice ==
  (/\ sig.phase = "setup"
   /\ sig.last # <<>> /\ sig.last[1] = "unsubscribe"
   /\ sig.before[1] = sig.last) =>
     /\ sig.subscriptions[sig.last[2]] = <<>>
     /\ sig.subscriptions = sig.before[3]
     /\ AllLive(sig.slots) = AllLive(sig.before[2])
     /\ sig.slots = sig.before[2]

\* a subscriber that had connections was unsubscribed twice in a row, while
\* another subscriber has connected slots
C39_Witness ==
  /\ sig.phase = "setup"
  /\ sig.last # <<>> /\ sig.last[1] = "unsubscribe"
  /\ sig.before[1] = sig.last
  /\ \E i \in 1..Len(sig.slots) : sig.slots[i].owner = sig.last[2]
  /\ AllLive(sig.slots) # {}


\* the signals regParser of driver d connects handlers to
DriverSignals(d) == IF d = "EnumDriver" THEN EnumSignals ELSE ClassSignals

\* after regParser was called again on a driver, every signal the driver
\* listens to has exactly one connected handler of it
OneLiveHandler ==
  \A d \in {"EnumDriver", "ClassDriver"} :
    (sig.phase = "setup" /\ sig.last = <<"regParser", d>>
       /\ sig.regs[d] > 1) =>
      \A k \in 1..Len(DriverSignals(d)) :
        Cardinality(Live(sig, d, DriverSignals(d)[k])) = 1

\* the parse of namespace n { class a { }; enum a { b }; } gives one entry per
\* declaration and registered driver, named a, in namespace n, the enum with
\* the one identifier b
OneEntryPerDeclaration ==
  (sig.phase = "parse" /\ sig.pos = Len(ParsedEvents)
     /\ ~sig.unsubscribed) =>
    /\ Len(sig.catalog) =
         Cardinality({d \in DOMAIN sig.regs : sig.regs[d] > 0})
    /\ \A i \in 1..Len(sig.catalog) :
         /\ sig.catalog[i].data.name = "a"
         /\ sig.catalog[i].data.namespaces = <<"n">>
         /\ "identifiers" \in DOMAIN sig.catalog[i].data =>
              sig.catalog[i].data.identifiers = <<"b">>

\* C40: regParser called again on a registered driver leaves exactly one
\* connected handler per signal, and the parse that follows gives one entry
\* per declaration, its namespaces and identifiers once each, and no entry
\* with an empty name
C40_OneHandlerAfterRegistering == OneLiveHandler /\ OneEntryPerDeclaration

\* ============================================================== the
\* body of a class: the repetition of classGrammar between x3::lit("{") and
\* x3::lit("};"), read lexeme by lexeme after  class a {  , with a
\* ClassDriver registered.  ahead is the next lexeme of the input, "" at its
\* end.  An alternative that fails leaves what its actions did.
\*
\* lexemes of one declaration, and declarations of a class body, for the
\* bodies of the family "members"
MaxMemberLexemes == 5
MaxMemberDeclarations == 1
\* the same for the bodies of the family "qualifiers"
MaxQualifiedLexemes == 7
MaxQualifiedDeclarations == 2

\* names; words that are no keyword of the grammar; staticKeyword and
\* constKeyword; "()" is a parameter list, read by parameterGrammar; "{}" an
\* inline body, read by ignoreScopes; "=3" an initializer, its text up to the
\* ';'; "template<T>" is templateKeyword and what templateGuts reads
EidWords == Ids \cup {"using", "explicit", "override"}
Qualifiers == {"static", "const"}
\* identifier_def matches every word, the keywords included
IdentifierWords == EidWords \cup Qualifiers \cup {"virtual"}

\* The bodies come in families.  "members": data members, member functions,
\* constructors, destructors and using declarations.  "qualifiers": members
\* and member functions with the qualifiers of the grammar.
BodyFamilies == {"members", "qualifiers"}
BodyLexemes(f) ==
  IF f = "members"
  THEN IdentifierWords \cup {"~", "()", ";", "{}", "=3", "=default",
                             "template<T>", "};"}
  ELSE {"a", "static", "override", "()", ";", "};"}
MaxDeclLexemes(f) ==
  IF f = "members" THEN MaxMemberLexemes ELSE MaxQualifiedLexemes
MaxDeclarations(f) ==
  IF f = "members" THEN MaxMemberDeclarations ELSE MaxQualifiedDeclarations

\* what ends a declaration
Boundaries == {";", "{}"}

\* The declaration the lexemes read since the last boundary are in C++,
\* followed lexeme by lexeme.  "start": qualifiers and template heads only;
\* "type": a name; "name": a type and a name; "init": and an initializer;
\* "method": a type, a name and a parameter list, with const and override;
\* "spec", "spec_p": and an exception specification; "type_p": a name and a
\* parameter list, which is a constructor, as are "explicit", "explicit_id"
\* with the parameter list; "dtor", "dtor_id", "dtor_p": a destructor;
\* "using": a using declaration; "other": none of these.
Reading(shape, tok) ==
  CASE shape = "start" ->
         (CASE tok \in Qualifiers \cup {"virtual", "template<T>"} -> "start"
            [] tok = "using" -> "using"
            [] tok = "explicit" -> "explicit"
            [] tok = "~" -> "dtor"
            [] tok \in Ids -> "type"
            [] OTHER -> "other")
    [] shape = "using" -> "using"
    [] shape = "explicit" -> IF tok \in Ids THEN "explicit_id" ELSE "other"
    [] shape = "explicit_id" -> IF tok = "()" THEN "type_p" ELSE "other"
    [] shape = "dtor" -> IF tok \in Ids THEN "dtor_id" ELSE "other"
    [] shape = "dtor_id" -> IF tok = "()" THEN "dtor_p" ELSE "other"
    [] shape = "type" ->
         (CASE tok = "()" -> "type_p" [] tok \in Ids -> "name"
            [] OTHER -> "other")
    [] shape \in {"type_p", "dtor_p"} ->
         IF tok = "=default" THEN shape ELSE "other"
    [] shape = "name" ->
         (CASE tok = "=3" -> "init" [] tok = "()" -> "method"
            [] OTHER -> "other")
    [] shape = "method" ->
         (CASE tok \in {"override", "const"} -> "method"
            [] tok \in Ids -> "spec"
            [] OTHER -> "other")
    [] shape = "spec" -> IF tok = "()" THEN "spec_p" ELSE "other"
    [] OTHER -> "other"

\* what the declaration that ends with the boundary tok declares
Declares(shape, tok) ==
  CASE shape \in {"name", "init"} /\ tok = ";" -> "member"
    [] shape \in {"method", "spec_p"} -> "method"
    [] shape \in {"type_p", "dtor_p"} -> "nothing"
    [] shape \in {"using", "start"} /\ tok = ";" -> "nothing"
    [] OTHER -> "other"

NewBody ==
  [pc |-> "body", family |-> "members", ahead |-> "", nlex |-> 0, ndecl |-> 0,
   held |-> <<>>,
   parser |-> [inClassConst |-> FALSE, inClassStatic |-> FALSE,
               inClassVirtual |-> FALSE, inClassStruct |-> FALSE,
               inClassEnhancedIdentifier |-> "", inClassIdentifier |-> ""],
   classes |-> handleClass(NewClassDriver, "a"),
   shape |-> "start", written |-> {}, words |-> <<>>,
   members |-> <<>>, methods |-> <<>>, wellFormed |-> TRUE, event |-> <<>>]

\* handleStaticMember, handleConstMember, handleVirtualMember
handleQualifier(p, word) ==
  CASE word = "static" -> [p EXCEPT !.inClassStatic = TRUE]
    [] word = "const" -> [p EXCEPT !.inClassConst = TRUE]
    [] word \in {"virtual", "override"} -> [p EXCEPT !.inClassVirtual = TRUE]
    [] OTHER -> p

\* the actions of the qualifiers of words, in their order
RECURSIVE handleQualifiers(_, _)
handleQualifiers(p, words) ==
  IF words = <<>> THEN p
  ELSE handleQualifiers(handleQualifier(p, Head(words)), Tail(words))

\* the lexeme ahead is consumed and next is the one behind it; what the
\* input declares is followed along
Advance(st, next) ==
  LET tok  == st.ahead
      ends == tok \in Boundaries
      decl == Declares(st.shape, tok)
  IN  [st EXCEPT
        !.ahead = next, !.event = <<>>,
        !.nlex = IF ends THEN 0 ELSE @ + 1,
        !.ndecl = IF ends THEN @ + 1 ELSE @,
        !.shape = IF ends THEN "start" ELSE Reading(@, tok),
        !.written = IF ends THEN {}
                    ELSE IF tok \in Qualifiers \cup {"virtual", "override"}
                    THEN @ \cup {tok} ELSE @,
        !.words = IF ends THEN <<>>
                  ELSE IF st.shape \in {"start", "type"} /\ tok \in Ids
                  THEN Append(@, tok) ELSE @,
        !.members = IF ends /\ decl = "member" THEN Append(@, st.words) ELSE @,
        !.methods = IF ends /\ decl = "method" THEN Append(@, st.words) ELSE @,
        !.wellFormed = @ /\ (ends => decl # "other")]

\* the lexemes that can stand behind the one ahead
NextLexemes ==
  IF mem.ahead \in Boundaries
  THEN IF mem.ndecl + 1 < MaxDeclarations(mem.family)
       THEN BodyLexemes(mem.family) \cup {""} ELSE {"};", ""}
  ELSE IF mem.nlex + 1 < MaxDeclLexemes(mem.family)
       THEN BodyLexemes(mem.family) \cup {""} ELSE {""}

\* (templateKeyword >> templateGuts)
templateMember_step ==
  /\ mem.pc = "body" /\ mem.ahead = "template<T>"
  /\ \E next \in NextLexemes : mem' = Advance(mem, next)
  /\ UNCHANGED <<parserVars, lbl, gen, cmp, chr, sig>>

\* virtualKeyword, which constructorDestructor reads without an action and
\* methodOrMember with handleVirtualMember: which of the two is open
virtualKeyword_step ==
  /\ mem.pc \in {"body", "virtuals"} /\ mem.ahead = "virtual"
  /\ \E next \in NextLexemes :
       mem' = [Advance(mem, next) EXCEPT !.pc = "virtuals",
                                         !.held = Append(@, "virtual")]
  /\ UNCHANGED <<parserVars, lbl, gen, cmp, chr, sig>>

\* constructorDestructor: -x3::char_('~')
tilde_step ==
  /\ mem.pc \in {"body", "virtuals"} /\ mem.ahead = "~"
  /\ \E next \in NextLexemes :
       mem' = [Advance(mem, next) EXCEPT !.pc = "tilde"]
  /\ UNCHANGED <<parserVars, lbl, gen, cmp, chr, sig>>

\* constructorDestructor: identifier, behind '~'
destructorName_step ==
  /\ mem.pc = "tilde" /\ mem.ahead \in IdentifierWords
  /\ \E next \in NextLexemes :
       mem' = [Advance(mem, next) EXCEPT !.pc = "tilde_id"]
  /\ UNCHANGED <<parserVars, lbl, gen, cmp, chr, sig>>

\* a word at the start of an entry: the identifier of constructorDestructor
\* if a parameter list follows, else the start of methodOrMember
word_step ==
  /\ mem.pc \in {"body", "virtuals"}
  /\ mem.ahead \in EidWords \cup Qualifiers
  /\ \E next \in NextLexemes :
       mem' = [Advance(mem, next) EXCEPT
                 !.pc = IF mem.ahead \in Qualifiers THEN "qual1" ELSE "word",
                 !.held = Append(@, mem.ahead)]
  /\ UNCHANGED <<parserVars, lbl, gen, cmp, chr, sig>>

\* constructorDestructor: identifier >> parameterGrammar; no action
constructor_step ==
  /\ mem.pc \in {"word", "qual1", "tilde_id"} /\ mem.ahead = "()"
  /\ \E next \in NextLexemes :
       mem' = [Advance(mem, next) EXCEPT !.pc = "ctor_tail", !.held = <<>>]
  /\ UNCHANGED <<parserVars, lbl, gen, cmp, chr, sig>>

\* constructorDestructor: *(ignoreScopes | defaultMethod | x3::char_(';'))
constructorTail_step ==
  /\ mem.pc = "ctor_tail" /\ mem.ahead \in {"{}", "=default", ";"}
  /\ \E next \in NextLexemes : mem' = Advance(mem, next)
  /\ UNCHANGED <<parserVars, lbl, gen, cmp, chr, sig>>

\* constructorDestructor has failed on the lexemes held; methodOrMember reads
\* them again: its qualifiers with their actions, and a word that is none
\* as the enhancedIdentifier of enhancedIdIdGrammar
methodOrMember_begin ==
  /\ \/ mem.pc = "virtuals"
          /\ mem.ahead \notin EidWords \cup Qualifiers \cup {"virtual", "~"}
     \/ mem.pc \in {"qual1", "word"} /\ mem.ahead # "()"
  /\ mem' = [mem EXCEPT
       !.pc = IF mem.pc = "word" THEN "eid" ELSE "quals",
       !.held = <<>>,
       !.parser = IF mem.pc = "word"
                  THEN [handleQualifiers(@, mem.held) EXCEPT
                          !.inClassEnhancedIdentifier = mem.held[Len(mem.held)]]
                  ELSE handleQualifiers(@, mem.held)]
  /\ UNCHANGED <<parserVars, lbl, gen, cmp, chr, sig>>

\* methodOrMember: staticKeyword [handleStaticMember] |
\* constKeyword [handleConstMember] | virtualKeyword [handleVirtualMember]
qualifier_step ==
  /\ mem.pc = "quals" /\ mem.ahead \in Qualifiers \cup {"virtual"}
  /\ \E next \in NextLexemes :
       mem' = [Advance(mem, next) EXCEPT
                 !.parser = handleQualifier(@, mem.ahead)]
  /\ UNCHANGED <<parserVars, lbl, gen, cmp, chr, sig>>

\* enhancedIdIdGrammar: enhancedIdentifier [handleInClassEnhancedIdentifier]
enhancedIdentifier_step ==
  /\ mem.pc = "quals" /\ mem.ahead \in EidWords
  /\ \E next \in NextLexemes :
       mem' = [Advance(mem, next) EXCEPT
                 !.pc = "eid", !.parser.inClassEnhancedIdentifier = mem.ahead]
  /\ UNCHANGED <<parserVars, lbl, gen, cmp, chr, sig>>

\* enhancedIdIdGrammar: identifier [handleInClassIdentifier]
identifier_step ==
  /\ mem.pc = "eid" /\ mem.ahead \in IdentifierWords
  /\ \E next \in NextLexemes :
       mem' = [Advance(mem, next) EXCEPT
                 !.pc = "member", !.parser.inClassIdentifier = mem.ahead]
  /\ UNCHANGED <<parserVars, lbl, gen, cmp, chr, sig>>

\* methodOrMember: *(x3::char_('=') >> *(x3::char_ - x3::char_(';')))
initializer_step ==
  /\ mem.pc = "member" /\ mem.ahead \in {"=3", "=default"}
  /\ \E next \in NextLexemes : mem' = Advance(mem, next)
  /\ UNCHANGED <<parserVars, lbl, gen, cmp, chr, sig>>

\* methodOrMember: -x3::char_(';') [handleMemberFound], with the subscriber
\* of ClassDriver::regParser
memberFound_step ==
  /\ mem.pc = "member" /\ mem.ahead = ";"
  /\ \E next \in NextLexemes :
       mem' = [Advance(mem, next) EXCEPT
         !.pc = "body",
         !.classes = ClassDriver_handleMemberFound(@, mem.parser.inClassConst,
                       mem.parser.inClassStatic,
                       mem.parser.inClassEnhancedIdentifier,
                       mem.parser.inClassIdentifier),
         !.event = [signal |-> "memberFound",
                    const |-> mem.parser.inClassConst,
                    static |-> mem.parser.inClassStatic,
                    virtual |-> FALSE, written |-> mem.written,
                    declares |-> Declares(mem.shape, mem.ahead)],
         !.parser = resetInClassFlags(@)]
  /\ UNCHANGED <<parserVars, lbl, gen, cmp, chr, sig>>

\* methodOrMember, second alternative: parameterGrammar
parameterGrammar_step ==
  /\ mem.pc = "body" /\ mem.ahead = "()"
  /\ \E next \in NextLexemes :
       mem' = [Advance(mem, next) EXCEPT !.pc = "method_tail"]
  /\ UNCHANGED <<parserVars, lbl, gen, cmp, chr, sig>>

\* methodOrMember: *(overrideKeyword [handleVirtualMember] |
\* constKeyword [handleConstMember])
methodQualifier_step ==
  /\ mem.pc = "method_tail" /\ mem.ahead \in {"override", "const"}
  /\ \E next \in NextLexemes :
       mem' = [Advance(mem, next) EXCEPT
                 !.parser = handleQualifier(@, mem.ahead)]
  /\ UNCHANGED <<parserVars, lbl, gen, cmp, chr, sig>>

\* methodOrMember: -(x3::char_(';') | ignoreScopes) [handleMethodFound], with
\* the subscriber of ClassDriver::regParser
methodFound_step ==
  /\ mem.pc = "method_tail" /\ mem.ahead \in {";", "{}"}
  /\ \E next \in NextLexemes :
       mem' = [Advance(mem, next) EXCEPT
         !.pc = "body",
         !.classes = ClassDriver_handleMethodFound(@, mem.parser.inClassConst,
                       mem.parser.inClassStatic, mem.parser.inClassVirtual,
                       mem.parser.inClassEnhancedIdentifier,
                       mem.parser.inClassIdentifier),
         !.event = [signal |-> "methodFound",
                    const |-> mem.parser.inClassConst,
                    static |-> mem.parser.inClassStatic,
                    virtual |-> mem.parser.inClassVirtual,
                    written |-> mem.written,
                    declares |-> Declares(mem.shape, mem.ahead)],
         !.parser = resetInClassFlags(@)]
  /\ UNCHANGED <<parserVars, lbl, gen, cmp, chr, sig>>

\* an alternative of the body ends where its optional or repeated last part
\* does not match: it has succeeded, and the repetition goes on
alternativeEnds ==
  /\ \/ mem.pc = "member" /\ mem.ahead \notin {"=3", "=default", ";"}
     \/ mem.pc = "ctor_tail" /\ mem.ahead \notin {"{}", "=default", ";"}
     \/ mem.pc = "method_tail" /\ mem.ahead \notin {"override", "const", ";", "{}"}
  /\ mem' = [mem EXCEPT !.pc = "body", !.event = <<>>]
  /\ UNCHANGED <<parserVars, lbl, gen, cmp, chr, sig>>

\* x3::lit("};") [handleClassPop]
classPop_step ==
  /\ mem.pc = "body" /\ mem.ahead = "};"
  /\ mem' = [mem EXCEPT !.pc = "closed", !.event = <<>>]
  /\ UNCHANGED <<parserVars, lbl, gen, cmp, chr, sig>>

\* no alternative of the body matches, and the "};" that must follow is not
\* there: classGrammar fails and the parse stops.  virtualKeyword
\* [handleVirtualMember] of methodOrMember has read the virtual that stands
\* before a '~'
bodyStops ==
  /\ \/ mem.pc = "body" /\ mem.ahead \notin IdentifierWords \cup
                              {"~", "()", "template<T>", "};"}
     \/ mem.pc = "quals" /\ mem.ahead \notin EidWords \cup Qualifiers \cup {"virtual"}
     \/ mem.pc = "eid" /\ mem.ahead \notin IdentifierWords
     \/ mem.pc = "tilde" /\ mem.ahead \notin IdentifierWords
     \/ mem.pc = "tilde_id" /\ mem.ahead # "()"
  /\ mem' = [mem EXCEPT !.pc = "stopped", !.held = <<>>, !.event = <<>>,
                        !.parser = handleQualifiers(@, mem.held)]
  /\ UNCHANGED <<parserVars, lbl, gen, cmp, chr, sig>>

BodyInit ==
  /\ NoParser
  /\ lbl = NoPipeline
  /\ gen = NoGenerator
  /\ cmp = NoComparison
  /\ chr = NoRule
  /\ sig = NoSignals
  /\ \E f \in BodyFamilies : \E first \in BodyLexemes(f) :
       mem = [NewBody EXCEPT !.family = f, !.ahead = first]

BodyNext ==
  \/ templateMember_step
  \/ virtualKeyword_step
  \/ tilde_step
  \/ destructorName_step
  \/ word_step
  \/ constructor_step
  \/ constructorTail_step
  \/ methodOrMember_begin
  \/ qualifier_step
  \/ enhancedIdentifier_step
  \/ identifier_step
  \/ initializer_step
  \/ memberFound_step
  \/ parameterGrammar_step
  \/ methodQualifier_step
  \/ methodFound_step
  \/ alternativeEnds
  \/ classPop_step
  \/ bodyStops

BodySpec == BodyInit /\ [][BodyNext]_vars


\* -------------------------------------------------------------- properties
\* the type and the name of every entry of a list of MemberData or MethodData
TypeAndName(entries) ==
  [i \in 1..Len(entries) |->
     <<IF "type" \in DOMAIN entries[i] THEN entries[i].type
       ELSE entries[i].returnType, entries[i].name>>]

\* C33: when a class made of data members, member functions, constructors,
\* destructors and using declarations closes, its ClassData lists the data
\* members and the member functions that were declared, each once and in
\* their order, and nothing else
C33_ExactlyTheDeclared ==
  (mem.pc = "closed" /\ mem.wellFormed) =>
    /\ TypeAndName(mem.classes.currentClass.members) = mem.members
    /\ TypeAndName(mem.classes.currentClass.methods) = mem.methods

\* C35: the const, static and virtual arguments of memberFound and of
\* methodFound are the qualifiers written in the declaration that sends the
\* event, when that is the declaration of a data member or of a member
\* function and the declarations before it are well formed: virtual is set
\* by virtual and by override
C35_QualifiersOfTheDeclaration ==
  (/\ mem.event # <<>> /\ mem.wellFormed
   /\ mem.event.declares = (IF mem.event.signal = "memberFound" THEN "member"
                            ELSE "method")) =>
    /\ mem.event.const = ("const" \in mem.event.written)
    /\ mem.event.static = ("static" \in mem.event.written)
    /\ mem.event.signal = "methodFound" =>
         mem.event.virtual = (mem.event.written \cap {"virtual", "override"} # {})

====
